---- MODULE Spec2Model ----
(***************************************************************************)
(* A model of the condition-grouping and optimization engine of ARLO:      *)
(*   - Optimizer (optimizer_service.py): Greedy and ILP pattern selection  *)
(*   - Architect (architect.py): condition grouping, satisfiable-group     *)
(*     partitioning with its response parser, quality-weight calculation   *)
(*   - Matrix (matrix.py) and ClusteringService (clustering_service.py)    *)
(* Each component has its own specification (SpecOpt, SpecGroup, SpecPart, *)
(* SpecWeights); the variables of the other components keep their initial  *)
(* values there.                                                           *)
(***************************************************************************)
EXTENDS Integers, Sequences, FiniteSets, TLC

VARIABLES
    matrix,              \* Matrix: [row_groups, rows]
    desired_qualities,   \* optimize(): desired_qualities, a list
    column_weights,      \* optimize(): column_weights, a dict
    group_order,         \* iteration order of the set get_all_groups() returns
    greedy_out,          \* what optimize(GREEDY, ...) produced
    ilp_out,             \* what optimize(ILP, ...) produced
    solver_status,       \* what the solver reported to _ilp ("none" before Solve)
    condition_groups,    \* Architect.condition_groups: a list of ConditionGroup
    satisfiable_groups,  \* Architect.satisfiable_groups: a list of SatisfiableGroup
    part_pc,             \* where _generate_satisfiable_groups is
    attempts,            \* iterations of its retry loop begun so far
    fell_back,           \* whether its fallback (lines 269-272) has run
    asrs,                \* Architect.asrs: the architecturally-significant Requirements
    embeddings,          \* what get_embeddings returned for the conditioned ASRs
    cluster_map,         \* the values of map_to_clusters' dict, in insertion order
    cluster_i,           \* the cluster the merge loop is at
    req_j,               \* the requirement of that cluster the merge loop is at
    cluster_groups,      \* cluster_groups of the merge loop
    group_pc,            \* where _generate_condition_groups is
    weights_mode,        \* quality_weights_mode of analyze
    provided_weights,    \* provided_weights of analyze (None or a dict)
    sg_index,            \* the SatisfiableGroup whose weights were calculated last
    quality_weights,     \* Architect.quality_weights
    norm_weights,        \* _normalize_weights: its argument weights, a dict
    normalized,          \* _normalize_weights: what it returned
    norm_pc,             \* where _normalize_weights is
    concerns,            \* the contents of the list object Architect.concerns
    an_pc,               \* where analyze is
    runs,                \* analyze calls begun on this Architect
    results,             \* per returned analyze call: the list it returned
    optimization_mode,   \* optimization_mode of analyze
    solver_available,    \* whether CreateSolver("SCIP") gives a solver
    solve_log,           \* per SatisfiableGroup of this call: how its optimization ended
    summary,             \* what get_results_summary returned for the concerns
    id_counter,          \* Requirement._id_counter, the counter of the class (requirement.py 20)
    parser_requirements, \* RequirementParser.requirements of each parser
    load_pc,             \* where each parser's load_from_text call is
    load_lines,          \* the non-blank lines each call has still to load
    load_read,           \* the counter value each call has read for its += 1
    loads,               \* the number of load_from_text calls made
    last_load,           \* the parser and the text of the most recent call
    vllm_process,        \* VLLMServerManager._process: none, or a Popen that is running or has exited
    current_model,       \* VLLMServerManager._current_model
    idle_timer,          \* the idle-timer task last created and the request that created it
    run_pc,              \* where analyze_requirements is in asyncio.run(run_analysis(...))
    run_model,           \* the model of the request being handled
    start_returned,      \* what the last start_server call returned, and the manager as it returned
    requests,            \* the number of analysis requests made
    oracle_response,     \* the partition-oracle response _parse_satisfiable_groups_response is given
    inertia,             \* KMeans(n_clusters=k).fit(data).inertia_ for each k: the clustering oracle's WCSS
    labelling,           \* which labels KMeans(n_clusters=k).fit_predict(data) gives
    clustered,           \* what the last cluster_conditions call computed
    equivalent,          \* the equivalence oracle's answer for each pair of condition texts
    equivalence_calls,   \* the equivalence-oracle calls made, in order
    csv_table,           \* the scoring-table file load_from_csv reads: its header cells and its data lines
    matrix_loaded,       \* whether Architect.__init__ has loaded the matrix
    api_settings,        \* the settings of the /api/analyze request body, if it has any
    api_pc               \* where the /api/analyze handler is

optVars == <<matrix, desired_qualities, column_weights, group_order, greedy_out, ilp_out, solver_status, csv_table, matrix_loaded>>

partVars == <<condition_groups, satisfiable_groups, part_pc, attempts, fell_back, oracle_response>>

groupVars == <<asrs, embeddings, cluster_map, cluster_i, req_j, cluster_groups, group_pc, inertia, labelling, clustered, equivalent, equivalence_calls>>

weightVars == <<weights_mode, provided_weights, sg_index, quality_weights, api_settings, api_pc>>

normVars == <<norm_weights, normalized, norm_pc>>

analyzeVars == <<concerns, an_pc, runs, results, optimization_mode, solver_available, solve_log, summary>>

loadVars == <<id_counter, parser_requirements, load_pc, load_lines, load_read, loads, last_load>>

vllmVars == <<vllm_process, current_model, idle_timer, run_pc, run_model, start_returned, requests>>

vars == <<optVars, partVars, groupVars, weightVars, normVars, analyzeVars, loadVars, vllmVars>>

----------------------------------------------------------------------------
(* Generic helpers for Python lists and dicts.                             *)

\* x in list
InList(x, list) == \E i \in 1..Len(list) : list[i] = x

\* dict.get(key, 0)
GetOrZero(dict, key) == IF key \in DOMAIN dict THEN dict[key] ELSE 0

RECURSIVE SumSeq(_)
\* sum(list)
SumSeq(s) == IF s = <<>> THEN 0 ELSE Head(s) + SumSeq(Tail(s))

\* the empty dict
EmptyDict == [k \in {} |-> 0]

\* provided_weights=None
NoneWeights == [is_none |-> TRUE, dict |-> EmptyDict]

\* provided_weights=dict
SomeWeights(dict) == [is_none |-> FALSE, dict |-> dict]

\* all the orders in which the elements of the set S can be iterated
Permutations_(S) == { s \in [1..Cardinality(S) -> S] : \A i, j \in 1..Cardinality(S) : s[i] = s[j] => i = j }

----------------------------------------------------------------------------
(* Bounds of the optimizer's inputs.                                       *)

\* longest desired-quality list drawn
MaxDesiredLen == 2

\* largest weight drawn for a quality
MaxWeight == 2

\* the quality attributes of the header, in header order (two of QA_MAPPINGS)
QualityOrder == <<"Performance Efficiency", "Security">>

Qualities == { QualityOrder[i] : i \in 1..Len(QualityOrder) }

\* the patterns of the table, in the order the table lists them
PatternOrder == <<"Monolith", "Microservices">>

Patterns == { PatternOrder[i] : i \in 1..Len(PatternOrder) }

\* decision categories of the table
Groups == {"Deployment", "Database Management"}

\* score cells: small signed integers
CellValues == {-1, 0, 1}

----------------------------------------------------------------------------
(* Matrix (matrix.py).  row_groups maps a pattern to its category; rows    *)
(* maps a pattern to its columns {quality -> score}.  Both dicts are       *)
(* iterated in insertion order, which is the table's row order             *)
(* (PatternOrder); a row's columns are iterated in header order            *)
(* (QualityOrder).  A pattern all of whose score cells were skipped is in  *)
(* row_groups and not in rows.                                             *)

\* the dicts {quality -> score} a row can hold
ColumnDicts == UNION { [qs -> CellValues] : qs \in SUBSET Qualities }

\* the matrices drawn: both patterns are listed, the first under "Deployment";
\* rows exist only for listed patterns, as load_from_csv and the tests build them
Matrices ==
    { [row_groups |-> rg, rows |-> rw] :
        rg \in { g \in [Patterns -> Groups] : g[PatternOrder[1]] = "Deployment" },
        rw \in UNION { [ps -> ColumnDicts] : ps \in SUBSET Patterns } }

\* Matrix(): no row and no group
EmptyMatrix == [row_groups |-> EmptyDict, rows |-> EmptyDict]

\* Matrix.get_all_groups
get_all_groups(m) == { m.row_groups[p] : p \in DOMAIN m.row_groups }

\* the keys of row_groups whose group is `group`, in insertion order
GroupPatterns(m, group) ==
    SelectSeq(PatternOrder, LAMBDA p : p \in DOMAIN m.row_groups /\ m.row_groups[p] = group)

\* Matrix.get_rows_by_group raises KeyError: self._rows[row_key] on a missing row
get_rows_by_group_raises(m, group) ==
    \E p \in DOMAIN m.row_groups : m.row_groups[p] = group /\ p \notin DOMAIN m.rows

\* Matrix.get_rows: the patterns that have a row, in insertion order
get_rows(m) == SelectSeq(PatternOrder, LAMBDA p : p \in DOMAIN m.rows)

\* columns.items() order of one row
ColumnItems(columns) == SelectSeq(QualityOrder, LAMBDA q : q \in DOMAIN columns)

----------------------------------------------------------------------------
(* Decision (decision.py) and the optimizer's results.                     *)

\* Decision(arch_pattern_name=group, score=float("-inf")) of _greedy
InitialDecision(group) ==
    [arch_pattern_name |-> group, selected_pattern |-> "", score |-> 0, neg_inf |-> TRUE,
     satisfied_qualities |-> <<>>, unsatisfied_qualities |-> <<>>]

\* optimize raised (KeyError out of get_rows_by_group)
Raised == [status |-> "raised", decisions |-> <<>>, satisfaction_scores |-> EmptyDict]

\* return decisions, satisfaction_scores
Returned(decisions, scores) ==
    [status |-> "returned", decisions |-> decisions, satisfaction_scores |-> scores]

\* cluster_conditions before any call
NotClustered == [wcss_list |-> <<>>, optimal_k |-> 0, cluster_assignments |-> <<>>]

\* optimize has not been called in this mode
NotRun == [status |-> "not_run", decisions |-> <<>>, satisfaction_scores |-> EmptyDict]

----------------------------------------------------------------------------
(* Optimizer._greedy (optimizer_service.py 45-88).                         *)

RECURSIVE GreedyRowValue(_, _, _, _)
\* row_value of one pattern: the loop over columns.items() with `col_name in desired_qualities`
GreedyRowValue(items, columns, desired, weights) ==
    IF items = <<>> THEN 0
    ELSE LET col_name == Head(items)
             rest == GreedyRowValue(Tail(items), columns, desired, weights)
         IN IF InList(col_name, desired)
            THEN columns[col_name] * GetOrZero(weights, col_name) + rest
            ELSE rest

\* satisfied: the desired columns with a positive value, in columns.items() order
SatisfiedOf(columns, desired) ==
    LET pos == SelectSeq(ColumnItems(columns), LAMBDA q : InList(q, desired) /\ columns[q] > 0)
    IN [i \in 1..Len(pos) |-> <<pos[i], columns[pos[i]]>>]

\* unsatisfied: the desired columns with a negative value, in columns.items() order
UnsatisfiedOf(columns, desired) ==
    LET neg == SelectSeq(ColumnItems(columns), LAMBDA q : InList(q, desired) /\ columns[q] < 0)
    IN [i \in 1..Len(neg) |-> <<neg[i], columns[neg[i]]>>]

\* replacement on a score that is greater or equal: the last seen wins a tie
GreedyReplacesOnTie(row_value, decision) == decision.neg_inf \/ row_value >= decision.score

\* row_value > decision.score, with the initial score of float("-inf")
GreedyReplaces(row_value, decision) == decision.neg_inf \/ row_value > decision.score

RECURSIVE GreedyScan(_, _, _, _, _)
\* the loop over group_rows.items() of one group (lines 63-82)
GreedyScan(decision, patterns, m, desired, weights) ==
    IF patterns = <<>> THEN decision
    ELSE LET pattern == Head(patterns)
             columns == m.rows[pattern]
             row_value == GreedyRowValue(ColumnItems(columns), columns, desired, weights)
             next == IF GreedyReplaces(row_value, decision)
                     THEN [decision EXCEPT !.score = row_value, !.neg_inf = FALSE,
                                           !.selected_pattern = pattern,
                                           !.satisfied_qualities = SatisfiedOf(columns, desired),
                                           !.unsatisfied_qualities = UnsatisfiedOf(columns, desired)]
                     ELSE decision
         IN GreedyScan(next, Tail(patterns), m, desired, weights)

RECURSIVE ScoresOfRow(_, _, _, _)
\* one decision's contribution to satisfaction_scores (lines 187-192)
ScoresOfRow(items, row, weights, scores) ==
    IF items = <<>> THEN scores
    ELSE LET q == Head(items)
             add == row[q] * GetOrZero(weights, q)
             upd == [k \in DOMAIN scores \cup {q} |-> IF k = q THEN GetOrZero(scores, q) + add ELSE scores[k]]
         IN ScoresOfRow(Tail(items), row, weights, upd)

RECURSIVE calculate_satisfaction_scores(_, _, _, _)
\* Optimizer._calculate_satisfaction_scores: `if selected_row` skips a missing or empty row
calculate_satisfaction_scores(m, weights, decisions, scores) ==
    IF decisions = <<>> THEN scores
    ELSE LET d == Head(decisions)
             has == d.selected_pattern \in DOMAIN m.rows
                    /\ m.row_groups[d.selected_pattern] = d.arch_pattern_name
             next == IF has /\ DOMAIN m.rows[d.selected_pattern] # {}
                     THEN ScoresOfRow(ColumnItems(m.rows[d.selected_pattern]),
                                      m.rows[d.selected_pattern], weights, scores)
                     ELSE scores
         IN calculate_satisfaction_scores(m, weights, Tail(decisions), next)

\* the decisions of _greedy, one per group in the order `groups` is iterated
GreedyDecisions(m, desired, weights, order) ==
    [i \in 1..Len(order) |->
        GreedyScan(InitialDecision(order[i]), GroupPatterns(m, order[i]), m, desired, weights)]

\* Optimizer._greedy
Greedy(m, desired, weights, order) ==
    IF \E i \in 1..Len(order) : get_rows_by_group_raises(m, order[i])
    THEN Raised
    ELSE LET decisions == GreedyDecisions(m, desired, weights, order)
         IN Returned(decisions, calculate_satisfaction_scores(m, weights, decisions, EmptyDict))

----------------------------------------------------------------------------
(* Optimizer._ilp (optimizer_service.py 90-171).                           *)

RECURSIVE IlpRowScore(_, _, _)
\* sum(columns.get(q, 0) * column_weights.get(q, 0) for q in desired_qualities)
IlpRowScore(columns, desired, weights) ==
    IF desired = <<>> THEN 0
    ELSE GetOrZero(columns, Head(desired)) * GetOrZero(weights, Head(desired))
         + IlpRowScore(columns, Tail(desired), weights)

\* what CreateSolver and Solve can report: no solver, a status other than OPTIMAL, OPTIMAL
SolverOutcomes == {"NO_SOLVER", "NOT_OPTIMAL", "OPTIMAL"}

\* the assignments of the binary variables, one per pattern of get_rows()
IlpAssignments(m) == [DOMAIN m.rows -> {0, 1}]

\* constraint OnlyOneRowInGroup_<group>: the group's variables sum to exactly 1
IlpFeasible(m, x) ==
    \A g \in get_all_groups(m) :
        Cardinality({ p \in DOMAIN m.rows : m.row_groups[p] = g /\ x[p] = 1 }) = 1

RECURSIVE IlpObjectiveOver(_, _, _, _, _)
\* the objective: sum over get_rows() of row_score * variable
IlpObjectiveOver(patterns, m, x, desired, weights) ==
    IF patterns = <<>> THEN 0
    ELSE IlpRowScore(m.rows[Head(patterns)], desired, weights) * x[Head(patterns)]
         + IlpObjectiveOver(Tail(patterns), m, x, desired, weights)

IlpObjective(m, x, desired, weights) == IlpObjectiveOver(get_rows(m), m, x, desired, weights)

\* the solutions a solver that reports OPTIMAL may return: feasible and of maximal objective
IlpOptimal(m, desired, weights) ==
    LET feasible == { x \in IlpAssignments(m) : IlpFeasible(m, x) }
    IN { x \in feasible :
            \A y \in feasible : IlpObjective(m, x, desired, weights) >= IlpObjective(m, y, desired, weights) }

\* the Decision built for a selected pattern (lines 142-163)
IlpDecision(group, pattern, columns, desired, weights) ==
    [arch_pattern_name |-> group, selected_pattern |-> pattern,
     score |-> IlpRowScore(columns, desired, weights), neg_inf |-> FALSE,
     satisfied_qualities |-> SatisfiedOf(columns, desired),
     unsatisfied_qualities |-> UnsatisfiedOf(columns, desired)]

\* the inner loop with its break: the first pattern of the group whose variable is 1
IlpExtractGroup(m, x, group, desired, weights) ==
    LET sel == SelectSeq(GroupPatterns(m, group), LAMBDA p : x[p] = 1)
    IN IF sel = <<>> THEN <<>>
       ELSE << IlpDecision(group, Head(sel), m.rows[Head(sel)], desired, weights) >>

RECURSIVE IlpExtract(_, _, _, _, _)
\* the extraction loop over groups (lines 136-165)
IlpExtract(m, x, order, desired, weights) ==
    IF order = <<>> THEN <<>>
    ELSE IlpExtractGroup(m, x, Head(order), desired, weights)
         \o IlpExtract(m, x, Tail(order), desired, weights)
\* _ilp that raised where lines 100-102 and 129-131 return the empty result
IlpAborting(m, desired, weights, order, outcome, x) ==
    IF outcome # "OPTIMAL" THEN Raised
    ELSE IF \E i \in 1..Len(order) : get_rows_by_group_raises(m, order[i]) THEN Raised
    ELSE LET decisions == IlpExtract(m, x, order, desired, weights)
         IN Returned(decisions, calculate_satisfaction_scores(m, weights, decisions, EmptyDict))

\* Optimizer._ilp, given what the solver reported and the solution x it returned
Ilp(m, desired, weights, order, outcome, x) ==
    IF outcome = "NO_SOLVER" THEN Returned(<<>>, EmptyDict)
    ELSE IF \E i \in 1..Len(order) : get_rows_by_group_raises(m, order[i]) THEN Raised
    ELSE IF outcome # "OPTIMAL" THEN Returned(<<>>, EmptyDict)
    ELSE LET decisions == IlpExtract(m, x, order, desired, weights)
         IN Returned(decisions, calculate_satisfaction_scores(m, weights, decisions, EmptyDict))

\* Optimizer.optimize
optimize(mode, desired, m, weights, order, outcome, x) ==
    IF mode = "ILP" THEN Ilp(m, desired, weights, order, outcome, x)
    ELSE Greedy(m, desired, weights, order)

----------------------------------------------------------------------------
(* Specification SpecOpt: optimize is called on one input in Greedy mode   *)
(* and then in ILP mode.                                                  *)

\* the desired-quality lists drawn: any list of qualities, repeats included
DesiredLists == UNION { [1..n -> Qualities] : n \in 0..MaxDesiredLen }

\* the weight dicts drawn: a quality without a key has weight 0 by column_weights.get
WeightDicts == UNION { [qs -> 1..MaxWeight] : qs \in SUBSET Qualities }

\* the other components as a freshly constructed Architect leaves them
\* (architect.py 45-50), given no input
InitOpt ==
    /\ matrix \in Matrices
    /\ desired_qualities \in DesiredLists
    /\ column_weights \in WeightDicts
    /\ group_order \in Permutations_(get_all_groups(matrix))
    /\ greedy_out = NotRun
    /\ ilp_out = NotRun
    /\ solver_status = "none"
    /\ condition_groups = <<>> /\ satisfiable_groups = <<>> /\ part_pc = "idle"
    /\ attempts = 0 /\ fell_back = FALSE
    /\ asrs = <<>> /\ embeddings = <<>> /\ cluster_map = <<>> /\ cluster_i = 0 /\ req_j = 0
    /\ cluster_groups = <<>> /\ group_pc = "idle"
    /\ weights_mode = "Inferred" /\ provided_weights = NoneWeights /\ sg_index = 0
    /\ quality_weights = EmptyDict
    /\ norm_weights = EmptyDict /\ normalized = EmptyDict /\ norm_pc = "idle"
    /\ concerns = <<>> /\ an_pc = "idle" /\ runs = 0 /\ results = <<>> /\ optimization_mode = "ILP" /\ solver_available = TRUE /\ solve_log = <<>> /\ summary = <<>>
    /\ id_counter = 0 /\ parser_requirements = << <<>>, <<>> >> /\ load_pc = <<"idle", "idle">> /\ load_lines = << <<>>, <<>> >> /\ load_read = <<0, 0>> /\ loads = 0 /\ last_load = [parser |-> 0, text |-> <<>>]
    /\ vllm_process = "none" /\ current_model = "none" /\ idle_timer = [state |-> "none", request |-> 0] /\ run_pc = "idle" /\ run_model = "none" /\ start_returned = [request |-> 0, model |-> "none", value |-> FALSE, process |-> "none", current_model |-> "none"] /\ requests = 0
    /\ oracle_response = <<>>
    /\ inertia = <<>> /\ labelling = "round_robin" /\ clustered = NotClustered /\ equivalent = <<>> /\ equivalence_calls = <<>>
    /\ csv_table = [header |-> <<>>, rows |-> <<>>] /\ matrix_loaded = TRUE
    /\ api_settings = [given |-> FALSE, quality_weights_mode |-> "Inferred", provided_weights |-> NoneWeights] /\ api_pc = "idle"

\* optimize(OptimizerMode.GREEDY, desired_qualities, matrix, column_weights)
OptimizeGreedy ==
    /\ matrix_loaded
    /\ greedy_out.status = "not_run"
    /\ greedy_out' = optimize("Greedy", desired_qualities, matrix, column_weights, group_order, "OPTIMAL", EmptyDict)
    /\ UNCHANGED <<matrix, desired_qualities, column_weights, group_order, ilp_out, solver_status>>
    /\ UNCHANGED <<partVars, groupVars, weightVars, normVars, analyzeVars, loadVars, vllmVars>>
    /\ UNCHANGED <<csv_table, matrix_loaded>>

\* whether _ilp gets as far as solver.Solve()
IlpReachesSolve(m, outcome) ==
    outcome # "NO_SOLVER" /\ ~(\E g \in get_all_groups(m) : get_rows_by_group_raises(m, g))

\* optimize(OptimizerMode.ILP, desired_qualities, matrix, column_weights), called on
\* the input Greedy mode was called on; the solver's report and solution are its own
OptimizeIlp ==
    /\ greedy_out.status # "not_run"
    /\ ilp_out.status = "not_run"
    /\ \E outcome \in SolverOutcomes :
         /\ solver_status' = IF IlpReachesSolve(matrix, outcome) THEN outcome
                             ELSE IF outcome = "NO_SOLVER" THEN outcome ELSE "none"
         /\ IF outcome = "OPTIMAL" /\ IlpReachesSolve(matrix, outcome)
            THEN \E x \in IlpOptimal(matrix, desired_qualities, column_weights) :
                   ilp_out' = optimize("ILP", desired_qualities, matrix, column_weights, group_order, outcome, x)
            ELSE ilp_out' = optimize("ILP", desired_qualities, matrix, column_weights, group_order, outcome, EmptyDict)
    /\ UNCHANGED <<matrix, desired_qualities, column_weights, group_order, greedy_out>>
    /\ UNCHANGED <<partVars, groupVars, weightVars, normVars, analyzeVars, loadVars, vllmVars>>
    /\ UNCHANGED <<csv_table, matrix_loaded>>

NextOpt == OptimizeGreedy \/ OptimizeIlp

----------------------------------------------------------------------------
(* Properties of the optimizer (SpecOpt).                                  *)

\* sum(d.score for d in decisions)
TotalScore(decisions) == SumSeq([i \in 1..Len(decisions) |-> decisions[i].score])

\* both modes have run and both returned decisions
BothReturnedDecisions ==
    /\ greedy_out.status = "returned" /\ greedy_out.decisions # <<>>
    /\ ilp_out.status = "returned" /\ ilp_out.decisions # <<>>

\* C1: whenever both modes return decisions on one input, the sum of the ILP
\* decisions' scores is not less than the sum of the Greedy decisions' scores.
C1_IlpTotalAtLeastGreedy ==
    BothReturnedDecisions => TotalScore(ilp_out.decisions) >= TotalScore(greedy_out.decisions)

\* the documented row score: the sum, over the desired qualities, of matrix value
\* times weight, a missing entry counting as 0
DocRowScore(columns, desired, weights) ==
    SumSeq([i \in 1..Len(QualityOrder) |->
              IF InList(QualityOrder[i], desired)
              THEN GetOrZero(columns, QualityOrder[i]) * GetOrZero(weights, QualityOrder[i])
              ELSE 0])

\* the sum of the values of a weight dict
WeightSum(weights) == SumSeq([i \in 1..Len(QualityOrder) |-> GetOrZero(weights, QualityOrder[i])])

\* decision d names a pattern of its category whose documented row score is the
\* category's maximum, and carries that score
SelectsMaximum(d, m, desired, weights) ==
    /\ d.selected_pattern \in DOMAIN m.rows
    /\ m.row_groups[d.selected_pattern] = d.arch_pattern_name
    /\ ~d.neg_inf
    /\ d.score = DocRowScore(m.rows[d.selected_pattern], desired, weights)
    /\ \A p \in DOMAIN m.rows :
         m.row_groups[p] = d.arch_pattern_name
            => DocRowScore(m.rows[p], desired, weights) <= d.score

\* every category has one decision in `out`, and each decision selects a maximum
AllSelectMaximum(out, m, desired, weights) ==
    /\ \A g \in get_all_groups(m) : \E i \in 1..Len(out.decisions) : out.decisions[i].arch_pattern_name = g
    /\ \A i \in 1..Len(out.decisions) : SelectsMaximum(out.decisions[i], m, desired, weights)

\* C2: with weights summing to at most 100, Greedy and ILP (when the solver reports
\* an optimal solution) select in every category a pattern of maximal documented row
\* score, and the Decision's score is that maximum.
C2_BothSelectRowMaximum ==
    WeightSum(column_weights) <= 100 =>
        /\ greedy_out.status = "returned" => AllSelectMaximum(greedy_out, matrix, desired_qualities, column_weights)
        /\ (ilp_out.status = "returned" /\ solver_status = "OPTIMAL")
              => AllSelectMaximum(ilp_out, matrix, desired_qualities, column_weights)

\* `out` holds exactly one Decision per category, each with a selected pattern of
\* that category and a score that is not the initial negative infinity
OneDecisionPerCategory(out, m) ==
    /\ out.status = "returned"
    /\ Len(out.decisions) = Cardinality(get_all_groups(m))
    /\ \A g \in get_all_groups(m) : \E i \in 1..Len(out.decisions) : out.decisions[i].arch_pattern_name = g
    /\ \A i \in 1..Len(out.decisions) :
         /\ ~out.decisions[i].neg_inf
         /\ out.decisions[i].selected_pattern # ""
         /\ out.decisions[i].selected_pattern \in DOMAIN m.row_groups
         /\ m.row_groups[out.decisions[i].selected_pattern] = out.decisions[i].arch_pattern_name

\* C3: optimize returns exactly one Decision per category, each naming a pattern of
\* that category and none left at the initial score or with an empty pattern: Greedy
\* always, ILP whenever the solver reports an optimal solution.
C3_OneDecisionPerCategory ==
    /\ greedy_out.status # "not_run" => OneDecisionPerCategory(greedy_out, matrix)
    /\ (ilp_out.status # "not_run" /\ solver_status = "OPTIMAL") => OneDecisionPerCategory(ilp_out, matrix)

----------------------------------------------------------------------------
(* Strings of the partition oracle's response, as sequences of characters, *)
(* and the string operations Architect._parse_satisfiable_groups_response  *)
(* uses (architect.py 274-301).                                            *)

\* whitespace, as str.strip() and \s see it
Whitespace == {" "}

\* the characters strip("()") removes
Parens == {"(", ")"}

\* the value of a decimal digit
DigitValue == [c \in {"0", "1", "2", "3", "4"} |-> CASE c = "0" -> 0 [] c = "1" -> 1 [] c = "2" -> 2 [] c = "3" -> 3 [] OTHER -> 4]

Digits == DOMAIN DigitValue

RECURSIVE LStrip(_, _)
\* str.lstrip(chars)
LStrip(str, chars) ==
    IF str # <<>> /\ Head(str) \in chars THEN LStrip(Tail(str), chars) ELSE str

RECURSIVE RStrip(_, _)
\* str.rstrip(chars)
RStrip(str, chars) ==
    IF str # <<>> /\ str[Len(str)] \in chars THEN RStrip(SubSeq(str, 1, Len(str) - 1), chars) ELSE str

\* str.strip(chars)
StripChars(str, chars) == RStrip(LStrip(str, chars), chars)

RECURSIVE SkipWhitespace(_, _)
\* the first position at or after i that holds no whitespace (\s* of the pattern)
SkipWhitespace(str, i) ==
    IF i <= Len(str) /\ str[i] \in Whitespace THEN SkipWhitespace(str, i + 1) ELSE i

\* the end of a match of \)\s*,\s*\( that starts at position i, or 0 when there is none
DelimiterEnd(str, i) ==
    IF i > Len(str) \/ str[i] # ")" THEN 0
    ELSE LET j == SkipWhitespace(str, i + 1)
         IN IF j > Len(str) \/ str[j] # "," THEN 0
            ELSE LET k == SkipWhitespace(str, j + 1)
                 IN IF k > Len(str) \/ str[k] # "(" THEN 0 ELSE k

RECURSIVE RegexSplitFrom(_, _, _)
\* re.split(r"\)\s*,\s*\(", str): the pieces between the leftmost non-overlapping matches
RegexSplitFrom(str, start, i) ==
    IF i > Len(str) THEN << SubSeq(str, start, Len(str)) >>
    ELSE LET e == DelimiterEnd(str, i)
         IN IF e = 0 THEN RegexSplitFrom(str, start, i + 1)
            ELSE << SubSeq(str, start, i - 1) >> \o RegexSplitFrom(str, e + 1, e + 1)

RegexSplit(str) == RegexSplitFrom(str, 1, 1)

RECURSIVE SplitCommaFrom(_, _, _)
\* str.split(",")
SplitCommaFrom(str, start, i) ==
    IF i > Len(str) THEN << SubSeq(str, start, Len(str)) >>
    ELSE IF str[i] = "," THEN << SubSeq(str, start, i - 1) >> \o SplitCommaFrom(str, i + 1, i + 1)
    ELSE SplitCommaFrom(str, start, i + 1)

SplitComma(str) == SplitCommaFrom(str, 1, 1)

RECURSIVE DecimalValue(_, _)
\* the number a run of digits denotes
DecimalValue(str, acc) ==
    IF str = <<>> THEN acc ELSE DecimalValue(Tail(str), 10 * acc + DigitValue[Head(str)])

\* int(str) succeeds: digits only, whitespace around them allowed (no sign or
\* underscore is among the characters drawn)
IntParses(str) ==
    LET t == StripChars(str, Whitespace)
    IN t # <<>> /\ \A i \in 1..Len(t) : t[i] \in Digits

\* int(str)
IntOf(str) == DecimalValue(StripChars(str, Whitespace), 0)

RECURSIVE ParseIdsUntilInvalid(_, _)
\* a loop that gives up the rest of a group at its first token that is no valid index
ParseIdsUntilInvalid(id_strings, group_count) ==
    IF id_strings = <<>> THEN <<>>
    ELSE LET id_str == StripChars(StripChars(Head(id_strings), Whitespace), Parens)
         IN IF IntParses(id_str) /\ 1 <= IntOf(id_str) /\ IntOf(id_str) <= group_count
            THEN << IntOf(id_str) >> \o ParseIdsUntilInvalid(Tail(id_strings), group_count)
            ELSE <<>>

RECURSIVE ParseIds(_, _)
\* the loop over id_strings (lines 286-293): the valid 1-based indices, in order
ParseIds(id_strings, group_count) ==
    IF id_strings = <<>> THEN <<>>
    ELSE LET id_str == StripChars(StripChars(Head(id_strings), Whitespace), Parens)
             rest == ParseIds(Tail(id_strings), group_count)
         IN IF IntParses(id_str) /\ 1 <= IntOf(id_str) /\ IntOf(id_str) <= group_count
            THEN << IntOf(id_str) >> \o rest
            ELSE rest

RECURSIVE ParseGroups(_, _)
\* the loop over groups (lines 282-301): one SatisfiableGroup per group_str with an id.
\* A SatisfiableGroup is the list of the positions, in condition_groups, of the
\* ConditionGroup objects it refers to.
ParseGroups(groups, group_count) ==
    IF groups = <<>> THEN <<>>
    ELSE LET ids == ParseIds(SplitComma(Head(groups)), group_count)
             rest == ParseGroups(Tail(groups), group_count)
         IN IF ids # <<>> THEN << ids >> \o rest ELSE rest

\* Architect._parse_satisfiable_groups_response: the SatisfiableGroups it appends
parse_satisfiable_groups_response(response, group_count) ==
    ParseGroups(RegexSplit(StripChars(StripChars(response, Whitespace), Parens)), group_count)

----------------------------------------------------------------------------
(* Architect._generate_satisfiable_groups (architect.py 234-272).          *)

\* RequirementParser.ANY_CIRCUMSTANCES_CONDITION
ANY_CIRCUMSTANCES_CONDITION == "under any circumstances"

\* condition texts other than the sentinel
ConditionTexts == {"if offline", "when overloaded"}

\* most ConditionGroups handed to the partitioner
MaxGroups == 3

\* longest partition-oracle response drawn
MaxResponseLen == 5

\* the characters of a response: the format's own, three indices, and a stray letter
ResponseChars == {"(", ")", ",", " ", "1", "2", "3", "x"}

\* the responses the partition oracle may give
Responses == UNION { [1..n -> ResponseChars] : n \in 0..MaxResponseLen }

\* a Requirement (requirement.py): id, condition_text, quality_attributes
Requirement(id, condition_text, quality_attributes) ==
    [id |-> id, condition_text |-> condition_text, quality_attributes |-> quality_attributes]

\* ConditionGroup(nominal_condition=..., requirements=[...]); the requirements are
\* references to the Requirement objects of asrs, held here as their ids
ConditionGroup(nominal_condition, requirements) ==
    [nominal_condition |-> nominal_condition, requirements |-> requirements]

\* the lists of ConditionGroups condition grouping can leave (analyze returns before
\* grouping when there is no ASR, lines 88-93): the sentinel group, if any, is the
\* first (lines 150-155); the others have some other nominal condition
ConditionGroupLists ==
    UNION { { [i \in 1..n |-> ConditionGroup(c[i], << i >>)] :
                c \in { t \in [1..n -> ConditionTexts \cup {ANY_CIRCUMSTANCES_CONDITION}] :
                          \A i \in 2..n : t[i] # ANY_CIRCUMSTANCES_CONDITION } } :
            n \in 1..MaxGroups }

\* SatisfiableGroup(condition_groups=list(self.condition_groups))
AllConditionGroups(groups) == [i \in 1..Len(groups) |-> i]

\* range(3): the retry loop's iterations
MaxAttempts == 3

\* a handler that lets the exception leave the loop
ExceptPropagates == FALSE

\* `except Exception` (line 266) catches what the oracle call or the parse raises
ExceptCatches == TRUE

\* what the loop's parse appends to satisfiable_groups, for every response the
\* partition oracle may return, by the number of ConditionGroups
ResponseAppends ==
    [n \in 1..MaxGroups |-> { parse_satisfiable_groups_response(r, n) : r \in Responses }]

InitPart ==
    /\ condition_groups \in ConditionGroupLists
    /\ asrs = [i \in 1..Len(condition_groups) |-> Requirement(i, condition_groups[i].nominal_condition, <<>>)]
    /\ satisfiable_groups = <<>>
    /\ part_pc = "start"
    /\ attempts = 0
    /\ fell_back = FALSE
    /\ matrix = EmptyMatrix /\ desired_qualities = <<>> /\ column_weights = EmptyDict
    /\ group_order = <<>> /\ greedy_out = NotRun /\ ilp_out = NotRun /\ solver_status = "none"
    /\ embeddings = <<>> /\ cluster_map = <<>> /\ cluster_i = 0 /\ req_j = 0
    /\ cluster_groups = <<>> /\ group_pc = "done"
    /\ weights_mode = "Inferred" /\ provided_weights = NoneWeights /\ sg_index = 0
    /\ quality_weights = EmptyDict
    /\ norm_weights = EmptyDict /\ normalized = EmptyDict /\ norm_pc = "idle"
    /\ concerns = <<>> /\ an_pc = "idle" /\ runs = 0 /\ results = <<>> /\ optimization_mode = "ILP" /\ solver_available = TRUE /\ solve_log = <<>> /\ summary = <<>>
    /\ id_counter = 0 /\ parser_requirements = << <<>>, <<>> >> /\ load_pc = <<"idle", "idle">> /\ load_lines = << <<>>, <<>> >> /\ load_read = <<0, 0>> /\ loads = 0 /\ last_load = [parser |-> 0, text |-> <<>>]
    /\ vllm_process = "none" /\ current_model = "none" /\ idle_timer = [state |-> "none", request |-> 0] /\ run_pc = "idle" /\ run_model = "none" /\ start_returned = [request |-> 0, model |-> "none", value |-> FALSE, process |-> "none", current_model |-> "none"] /\ requests = 0
    /\ oracle_response = <<>>
    /\ inertia = <<>> /\ labelling = "round_robin" /\ clustered = NotClustered /\ equivalent = <<>> /\ equivalence_calls = <<>>
    /\ csv_table = [header |-> <<>>, rows |-> <<>>] /\ matrix_loaded = TRUE
    /\ api_settings = [given |-> FALSE, quality_weights_mode |-> "Inferred", provided_weights |-> NoneWeights] /\ api_pc = "idle"

\* lines 236-242: zero or one ConditionGroup needs no oracle
PartSingle ==
    /\ part_pc = "start"
    /\ Len(condition_groups) <= 1
    /\ satisfiable_groups' = IF condition_groups # <<>>
                             THEN Append(satisfiable_groups, AllConditionGroups(condition_groups))
                             ELSE satisfiable_groups
    /\ part_pc' = "done"
    /\ UNCHANGED <<condition_groups, attempts, fell_back>>
    /\ UNCHANGED <<optVars, groupVars, weightVars, normVars, analyzeVars, loadVars, vllmVars>>
    /\ UNCHANGED oracle_response

\* lines 244-257: the instructions and the prompt are built
PartPrompt ==
    /\ part_pc = "start"
    /\ Len(condition_groups) > 1
    /\ part_pc' = "loop"
    /\ UNCHANGED <<condition_groups, satisfiable_groups, attempts, fell_back>>
    /\ UNCHANGED <<optVars, groupVars, weightVars, normVars, analyzeVars, loadVars, vllmVars>>
    /\ UNCHANGED oracle_response

\* lines 260-267: one iteration of the retry loop.  The oracle call raises or returns
\* a response, which is parsed; an exception is caught and the loop goes on.
PartAttempt ==
    /\ part_pc = "loop"
    /\ attempts < MaxAttempts
    /\ attempts' = attempts + 1
    /\ \/ /\ part_pc' = IF ExceptCatches THEN "loop" ELSE "raised"
          /\ UNCHANGED satisfiable_groups
       \/ \E appended \in ResponseAppends[Len(condition_groups)] :
            /\ satisfiable_groups' = satisfiable_groups \o appended
            /\ part_pc' = IF satisfiable_groups' # <<>> THEN "done" ELSE "loop"
    /\ UNCHANGED <<condition_groups, fell_back>>
    /\ UNCHANGED <<optVars, groupVars, weightVars, normVars, analyzeVars, loadVars, vllmVars>>
    /\ UNCHANGED oracle_response

\* lines 269-272: the loop is exhausted; all ConditionGroups become one SatisfiableGroup
PartFallback ==
    /\ part_pc = "loop"
    /\ attempts >= MaxAttempts
    /\ satisfiable_groups' = Append(satisfiable_groups, AllConditionGroups(condition_groups))
    /\ fell_back' = TRUE
    /\ part_pc' = "done"
    /\ UNCHANGED <<condition_groups, attempts>>
    /\ UNCHANGED <<optVars, groupVars, weightVars, normVars, analyzeVars, loadVars, vllmVars>>
    /\ UNCHANGED oracle_response

NextPart == PartSingle \/ PartPrompt \/ PartAttempt \/ PartFallback

----------------------------------------------------------------------------
(* Architect._generate_condition_groups (architect.py 138-214) with        *)
(* ClusteringService (clustering_service.py).                              *)

\* most architecturally-significant Requirements drawn
MaxAsrs == 4

\* the lists of architecturally-significant Requirements: ids 1..n in list order
AsrLists ==
    UNION { { [i \in 1..n |-> Requirement(i, c[i], <<>>)] :
                c \in [1..n -> ConditionTexts \cup {ANY_CIRCUMSTANCES_CONDITION}] } :
            n \in 1..MaxAsrs }

\* [r.id for r in reqs if r.condition_text != any_condition] (lines 142-144)
ReqsWithConditions(reqs) ==
    LET with == SelectSeq(reqs, LAMBDA r : r.condition_text # ANY_CIRCUMSTANCES_CONDITION)
    IN  [i \in 1..Len(with) |-> with[i].id]

\* [r.id for r in reqs if r.condition_text == any_condition] (lines 145-147)
ReqsWithoutConditions(reqs) ==
    LET without == SelectSeq(reqs, LAMBDA r : r.condition_text = ANY_CIRCUMSTANCES_CONDITION)
    IN  [i \in 1..Len(without) |-> without[i].id]

\* the Requirement of asrs with the given id
ReqById(reqs, id) == reqs[CHOOSE i \in 1..Len(reqs) : reqs[i].id = id]

\* an embedding is the empty list (an error answer, ollama_service.py 119-124) or a vector
EmbeddingValues == { <<>>, <<1>> }

\* [e for e in embeddings if e] (line 170)
ValidEmbeddings(embs) == SelectSeq(embs, LAMBDA e : e # <<>>)

\* max_clusters of cluster_conditions
max_clusters == 20

\* min(a, b)
Min2(a, b) == IF a <= b THEN a ELSE b

\* max(a, b)
Max2(a, b) == IF a >= b THEN a ELSE b

\* list(range(n))
RangeList(n) == [i \in 1..n |-> i - 1]

\* most vectors given to cluster_conditions
MaxVectors == 25

\* greatest WCSS the clustering oracle reports
MaxWcss == 2

\* the numbers of clusters K-Means is fitted for with up to MaxVectors vectors:
\* min_k >= 2 and max_k <= n_samples // 5 (lines 35-36)
CandidateKs == 2..Max2(2, MaxVectors \div 5)

\* kmeans.inertia_ for each k (lines 45-47), the answers of the clustering oracle
Inertias == [CandidateKs -> 0..MaxWcss]

\* the labels the clustering oracle gives: vector i in cluster i mod k, or the vectors
\* in k blocks of consecutive ones
Labellings == {"round_robin", "blocks"}

\* final_kmeans.fit_predict(data).tolist() (lines 55-58): n labels among 0..k-1
fit_predict(n, k, kind) ==
    [i \in 1..n |-> IF kind = "round_robin" THEN (i - 1) % k ELSE ((i - 1) * k) \div n]

\* float("-inf") (line 73)
NegInfinity == [inf |-> TRUE, value |-> 0]

\* a finite float
Finite(x) == [inf |-> FALSE, value |-> x]

\* a comparison that also replaces the index on an equal decrease
ExceedsOrEquals(diff, max_diff) == max_diff.inf \/ diff >= max_diff.value

\* diff > max_diff (line 78)
Exceeds(diff, max_diff) == max_diff.inf \/ diff > max_diff.value

\* for i in range(1, len(wcss_list) - 1) (lines 76-80), from i on; wcss_list[i] of the
\* code is the element at position i + 1 here
RECURSIVE ElbowLoop(_, _, _, _)
ElbowLoop(wcss_list, i, max_diff, optimal_k_index) ==
    IF i >= Len(wcss_list) - 1 THEN optimal_k_index
    ELSE LET diff == wcss_list[i] - wcss_list[i + 1]
         IN  IF Exceeds(diff, max_diff)
             THEN ElbowLoop(wcss_list, i + 1, Finite(diff), i)
             ELSE ElbowLoop(wcss_list, i + 1, max_diff, optimal_k_index)

\* _find_elbow_point (lines 60-82)
find_elbow_point(wcss_list) ==
    IF Len(wcss_list) <= 2 THEN 0
    ELSE ElbowLoop(wcss_list, 1, NegInfinity, 0)

\* a cluster_conditions that clusters whenever there is a candidate k at all
cluster_conditions_when_any_k(n, wcss, kind) ==
    IF n < 2 THEN [wcss_list |-> <<>>, optimal_k |-> 0, cluster_assignments |-> RangeList(n)]
    ELSE LET min_k == Max2(2, n \div 10)
             max_k == Min2(max_clusters, Min2(n \div 5, n - 1))
         IN  IF max_k < min_k
             THEN [wcss_list |-> <<>>, optimal_k |-> 0, cluster_assignments |-> RangeList(n)]
             ELSE LET wcss_list == [x \in 1..(max_k - min_k + 1) |-> wcss[min_k + x - 1]]
                      optimal_k == min_k + find_elbow_point(wcss_list)
                  IN  [wcss_list |-> wcss_list, optimal_k |-> optimal_k,
                       cluster_assignments |-> fit_predict(n, optimal_k, kind)]

\* a cluster_conditions whose max_k leaves out n_samples // 5
cluster_conditions_without_fifth(n, wcss, kind) ==
    IF n < 2 THEN [wcss_list |-> <<>>, optimal_k |-> 0, cluster_assignments |-> RangeList(n)]
    ELSE LET min_k == Max2(2, n \div 10)
             max_k == Min2(Max2(2, MaxVectors \div 5), Min2(max_clusters, n - 1))
         IN  IF max_k <= min_k
             THEN [wcss_list |-> <<>>, optimal_k |-> 0, cluster_assignments |-> RangeList(n)]
             ELSE LET wcss_list == [x \in 1..(max_k - min_k + 1) |-> wcss[min_k + x - 1]]
                      optimal_k == min_k + find_elbow_point(wcss_list)
                  IN  [wcss_list |-> wcss_list, optimal_k |-> optimal_k,
                       cluster_assignments |-> fit_predict(n, optimal_k, kind)]

\* cluster_conditions (lines 10-58) for n embeddings, given the clustering oracle: the
\* identity assignment when there are too few samples (lines 27-28, 38-40), else the
\* WCSS of every k in min_k..max_k, the k the elbow chooses and the labels for that k.
\* The result is the returned list with the WCSS list and the chosen k (0: none)
cluster_conditions(n, wcss, kind) ==
    IF n < 2 THEN [wcss_list |-> <<>>, optimal_k |-> 0, cluster_assignments |-> RangeList(n)]
    ELSE LET min_k == Max2(2, n \div 10)
             max_k == Min2(max_clusters, Min2(n \div 5, n - 1))
         IN  IF max_k <= min_k
             THEN [wcss_list |-> <<>>, optimal_k |-> 0, cluster_assignments |-> RangeList(n)]
             ELSE LET wcss_list == [x \in 1..(max_k - min_k + 1) |-> wcss[min_k + x - 1]]
                      optimal_k == min_k + find_elbow_point(wcss_list)
                  IN  [wcss_list |-> wcss_list, optimal_k |-> optimal_k,
                       cluster_assignments |-> fit_predict(n, optimal_k, kind)]

\* the dict of map_to_clusters after the first `count` pairs of zip(items, assignments),
\* as the list of (cluster id, items) in insertion order
RECURSIVE MapPairs(_, _, _)
MapPairs(items, assignments, count) ==
    IF count = 0 THEN <<>>
    ELSE LET before == MapPairs(items, assignments, count - 1)
             cluster_id == assignments[count]
             at == { k \in 1..Len(before) : before[k].cluster_id = cluster_id }
         IN  IF at = {}
             THEN Append(before, [cluster_id |-> cluster_id, items |-> << items[count] >>])
             ELSE LET k == CHOOSE x \in at : TRUE
                  IN  [before EXCEPT ![k].items = Append(@, items[count])]

\* map_to_clusters(items, cluster_assignments).values(): zip stops at the shorter list
map_to_clusters(items, cluster_assignments) ==
    LET pairs == MapPairs(items, cluster_assignments, Min2(Len(items), Len(cluster_assignments)))
    IN  [k \in 1..Len(pairs) |-> pairs[k].items]

\* one ConditionGroup per requirement (lines 173-178)
SingletonGroups(reqs, ids) ==
    [i \in 1..Len(ids) |-> ConditionGroup(ReqById(reqs, ids[i]).condition_text, << ids[i] >>)]

\* what the equivalence oracle does when called: a response text, or an exception
OracleAnswers == {"True", "False", "raise"}

\* the equivalence oracle: its answer for (condition1, condition2)
EquivalenceOracles == [ConditionTexts \X ConditionTexts -> OracleAnswers]

\* a _check_condition_equivalence that calls the oracle a second time after an exception
check_condition_equivalence_retrying(condition1, condition2, oracle) ==
    LET answer == oracle[<<condition1, condition2>>]
    IN  IF answer = "raise"
        THEN [answers |-> <<answer, answer>>, is_equivalent |-> FALSE]
        ELSE [answers |-> <<answer>>, is_equivalent |-> answer = "True"]

\* _check_condition_equivalence (lines 216-232): one call; `"true" in response.lower()`
\* of the responses "True" and "False"; an exception is caught and gives False.
\* The result is the value returned with the answers of the calls made
check_condition_equivalence(condition1, condition2, oracle) ==
    LET answer == oracle[<<condition1, condition2>>]
    IN  IF answer = "raise"
        THEN [answers |-> <<answer>>, is_equivalent |-> FALSE]
        ELSE [answers |-> <<answer>>, is_equivalent |-> answer = "True"]

\* the oracle calls of one check as entries of the call log
CallsOf(id, cluster, at, checked) ==
    [x \in 1..Len(checked.answers) |->
        [req |-> id, cluster |-> cluster, group |-> at, answer |-> checked.answers[x]]]

\* a scan that goes on after a match and joins the last group judged equivalent
RECURSIVE ScanGroupsToTheEnd(_, _, _, _, _, _)
ScanGroupsToTheEnd(id, condition_text, cluster, groups, at, oracle) ==
    IF at > Len(groups) THEN [found |-> 0, calls |-> <<>>]
    ELSE LET checked == check_condition_equivalence(condition_text, groups[at].nominal_condition, oracle)
             rest == ScanGroupsToTheEnd(id, condition_text, cluster, groups, at + 1, oracle)
         IN  [found |-> IF rest.found # 0 THEN rest.found
                        ELSE IF checked.is_equivalent THEN at ELSE 0,
              calls |-> CallsOf(id, cluster, at, checked) \o rest.calls]

\* for group in cluster_groups (lines 199-206), from position `at` on: the position of
\* the first group judged equivalent (0: none) and the oracle calls made; the loop
\* breaks at the first match
RECURSIVE ScanGroups(_, _, _, _, _, _)
ScanGroups(id, condition_text, cluster, groups, at, oracle) ==
    IF at > Len(groups) THEN [found |-> 0, calls |-> <<>>]
    ELSE LET checked == check_condition_equivalence(condition_text, groups[at].nominal_condition, oracle)
         IN  IF checked.is_equivalent
             THEN [found |-> at, calls |-> CallsOf(id, cluster, at, checked)]
             ELSE LET rest == ScanGroups(id, condition_text, cluster, groups, at + 1, oracle)
                  IN  [found |-> rest.found,
                       calls |-> CallsOf(id, cluster, at, checked) \o rest.calls]

InitGroup ==
    /\ asrs \in AsrLists
    /\ condition_groups = <<>>
    /\ group_pc = "start"
    /\ embeddings = <<>> /\ cluster_map = <<>> /\ cluster_i = 0 /\ req_j = 0
    /\ cluster_groups = <<>>
    /\ satisfiable_groups = <<>> /\ part_pc = "idle" /\ attempts = 0 /\ fell_back = FALSE
    /\ matrix = EmptyMatrix /\ desired_qualities = <<>> /\ column_weights = EmptyDict
    /\ group_order = <<>> /\ greedy_out = NotRun /\ ilp_out = NotRun /\ solver_status = "none"
    /\ weights_mode = "Inferred" /\ provided_weights = NoneWeights /\ sg_index = 0
    /\ quality_weights = EmptyDict
    /\ norm_weights = EmptyDict /\ normalized = EmptyDict /\ norm_pc = "idle"
    /\ concerns = <<>> /\ an_pc = "idle" /\ runs = 0 /\ results = <<>> /\ optimization_mode = "ILP" /\ solver_available = TRUE /\ solve_log = <<>> /\ summary = <<>>
    /\ id_counter = 0 /\ parser_requirements = << <<>>, <<>> >> /\ load_pc = <<"idle", "idle">> /\ load_lines = << <<>>, <<>> >> /\ load_read = <<0, 0>> /\ loads = 0 /\ last_load = [parser |-> 0, text |-> <<>>]
    /\ vllm_process = "none" /\ current_model = "none" /\ idle_timer = [state |-> "none", request |-> 0] /\ run_pc = "idle" /\ run_model = "none" /\ start_returned = [request |-> 0, model |-> "none", value |-> FALSE, process |-> "none", current_model |-> "none"] /\ requests = 0
    /\ oracle_response = <<>>
    /\ inertia = <<>> /\ labelling = "round_robin" /\ clustered = NotClustered /\ equivalent = <<>> /\ equivalence_calls = <<>>
    /\ csv_table = [header |-> <<>>, rows |-> <<>>] /\ matrix_loaded = TRUE
    /\ api_settings = [given |-> FALSE, quality_weights_mode |-> "Inferred", provided_weights |-> NoneWeights] /\ api_pc = "idle"

\* lines 141-158: the ASRs are split; the "under any circumstances" group is appended;
\* with no conditioned ASR the method returns
GroupSplit ==
    /\ group_pc = "start"
    /\ LET without == ReqsWithoutConditions(asrs)
       IN  condition_groups' =
               IF without # <<>>
               THEN Append(condition_groups, ConditionGroup(ANY_CIRCUMSTANCES_CONDITION, without))
               ELSE condition_groups
    /\ group_pc' = IF ReqsWithConditions(asrs) = <<>> THEN "done" ELSE "embed"
    /\ UNCHANGED <<asrs, embeddings, cluster_map, cluster_i, req_j, cluster_groups>>
    /\ UNCHANGED <<satisfiable_groups, part_pc, attempts, fell_back>>
    /\ UNCHANGED <<optVars, weightVars, normVars, analyzeVars, loadVars, vllmVars>>
    /\ UNCHANGED oracle_response
    /\ UNCHANGED <<inertia, labelling, clustered, equivalent, equivalence_calls>>

\* lines 161-179: the embedding oracle answers with one embedding per condition, each
\* empty or not; with fewer than 2 non-empty ones every requirement gets its own group
GroupEmbed ==
    /\ group_pc = "embed"
    /\ LET with == ReqsWithConditions(asrs)
       IN  \E answer \in [1..Len(with) -> EmbeddingValues] :
             /\ embeddings' = answer
             /\ IF Len(ValidEmbeddings(answer)) < 2
                THEN /\ condition_groups' = condition_groups \o SingletonGroups(asrs, with)
                     /\ group_pc' = "done"
                ELSE /\ group_pc' = "cluster"
                     /\ UNCHANGED condition_groups
    /\ UNCHANGED <<asrs, cluster_map, cluster_i, req_j, cluster_groups>>
    /\ UNCHANGED <<satisfiable_groups, part_pc, attempts, fell_back>>
    /\ UNCHANGED <<optVars, weightVars, normVars, analyzeVars, loadVars, vllmVars>>
    /\ UNCHANGED oracle_response
    /\ UNCHANGED <<inertia, labelling, clustered, equivalent, equivalence_calls>>

\* lines 181-184: the non-empty embeddings are clustered and the conditioned ASRs are
\* zipped with the assignments
GroupCluster ==
    /\ group_pc = "cluster"
    /\ clustered' = cluster_conditions(Len(ValidEmbeddings(embeddings)), inertia, labelling)
    /\ cluster_map' = map_to_clusters(ReqsWithConditions(asrs), clustered'.cluster_assignments)
    /\ cluster_i' = 1
    /\ req_j' = 1
    /\ cluster_groups' = <<>>
    /\ group_pc' = IF cluster_map' = <<>> THEN "done" ELSE "merge"
    /\ UNCHANGED <<asrs, embeddings, condition_groups, inertia, labelling, equivalent, equivalence_calls>>
    /\ UNCHANGED <<satisfiable_groups, part_pc, attempts, fell_back, oracle_response>>
    /\ UNCHANGED <<optVars, weightVars, normVars, analyzeVars, loadVars, vllmVars>>

\* lines 190-212: one requirement of the cluster.  The first one opens a group; a later
\* one is checked against the cluster's groups in order, joins the first one judged
\* equivalent or, when none is, opens a new group
GroupMergeStep ==
    /\ group_pc = "merge"
    /\ req_j <= Len(cluster_map[cluster_i])
    /\ LET id == cluster_map[cluster_i][req_j]
           condition_text == ReqById(asrs, id).condition_text
           opened == ConditionGroup(condition_text, << id >>)
       IN  IF cluster_groups = <<>>
           THEN /\ cluster_groups' = Append(cluster_groups, opened)
                /\ UNCHANGED equivalence_calls
           ELSE LET scan == ScanGroups(id, condition_text, cluster_i, cluster_groups, 1, equivalent)
                IN  /\ cluster_groups' =
                           IF scan.found = 0
                           THEN Append(cluster_groups, opened)
                           ELSE [cluster_groups EXCEPT ![scan.found].requirements = Append(@, id)]
                    /\ equivalence_calls' = equivalence_calls \o scan.calls
    /\ req_j' = req_j + 1
    /\ UNCHANGED <<asrs, embeddings, cluster_map, cluster_i, group_pc, condition_groups>>
    /\ UNCHANGED <<inertia, labelling, clustered, equivalent>>
    /\ UNCHANGED <<satisfiable_groups, part_pc, attempts, fell_back, oracle_response>>
    /\ UNCHANGED <<optVars, weightVars, normVars, analyzeVars, loadVars, vllmVars>>

\* line 214: the cluster's groups are appended; the loop goes to the next cluster
GroupExtend ==
    /\ group_pc = "merge"
    /\ req_j > Len(cluster_map[cluster_i])
    /\ condition_groups' = condition_groups \o cluster_groups
    /\ cluster_groups' = <<>>
    /\ req_j' = 1
    /\ IF cluster_i < Len(cluster_map)
       THEN cluster_i' = cluster_i + 1 /\ group_pc' = "merge"
       ELSE cluster_i' = cluster_i /\ group_pc' = "done"
    /\ UNCHANGED <<asrs, embeddings, cluster_map>>
    /\ UNCHANGED <<satisfiable_groups, part_pc, attempts, fell_back>>
    /\ UNCHANGED <<optVars, weightVars, normVars, analyzeVars, loadVars, vllmVars>>
    /\ UNCHANGED oracle_response
    /\ UNCHANGED <<inertia, labelling, clustered, equivalent, equivalence_calls>>

NextGroup == GroupSplit \/ GroupEmbed \/ GroupCluster \/ GroupMergeStep \/ GroupExtend

----------------------------------------------------------------------------
(* Architect._calculate_quality_weights (architect.py 303-328), called for *)
(* each SatisfiableGroup by analyze (lines 105-109).                       *)

\* longest quality-attribute list of a Requirement drawn
MaxQaLen == 2

\* the quality-attribute lists the parsing oracle may give a Requirement; the parser
\* stores the list as returned (parser_service.py line 98)
QaLists == UNION { [1..n -> Qualities] : n \in 0..MaxQaLen }

\* QualityWeightsMode
WeightModes == {"EquallyImportant", "AllRequired", "Inferred", "Provided"}

\* provided_weights of analyze: None or a dict
ProvidedChoices == {NoneWeights} \cup { SomeWeights(d) : d \in WeightDicts }

\* matrices for the weight calculator, which reads the rows' column names only: a
\* row holds the cells of its line that parsed as integers, at least one
\* (load_from_csv, matrix.py 92-100)
WeightMatrices ==
    { [row_groups |-> [p \in Patterns |-> "Deployment"], rows |-> rw] :
        rw \in UNION { [ps -> UNION { [qs -> {1}] : qs \in (SUBSET Qualities) \ {{}} }] :
                         ps \in SUBSET Patterns } }

\* what grouping and partitioning leave for one or two ASRs: the ASRs, the
\* ConditionGroups and the SatisfiableGroups (lists of ConditionGroup positions).
\* One ConditionGroup gives the one SatisfiableGroup of lines 238-241; two give what
\* the parse of a response gives, here one group of up to two indices or "(1),(2)"
GroupedInputs ==
    LET any == ANY_CIRCUMSTANCES_CONDITION
        one == { [asrs |-> << Requirement(1, any, a) >>,
                  condition_groups |-> << ConditionGroup(any, <<1>>) >>,
                  satisfiable_groups |-> << <<1>> >>] : a \in QaLists }
        same == { [asrs |-> << Requirement(1, any, a), Requirement(2, any, b) >>,
                   condition_groups |-> << ConditionGroup(any, <<1, 2>>) >>,
                   satisfiable_groups |-> << <<1>> >>] : a \in QaLists, b \in QaLists }
        two == { [asrs |-> << Requirement(1, any, a), Requirement(2, "if offline", b) >>,
                  condition_groups |-> << ConditionGroup(any, <<1>>), ConditionGroup("if offline", <<2>>) >>,
                  satisfiable_groups |-> sgs] :
                    a \in QaLists, b \in QaLists,
                    sgs \in { << sg >> : sg \in UNION { [1..n -> 1..2] : n \in 1..2 } }
                              \cup { << <<1>>, <<2>> >> } }
    IN  one \cup same \cup two

\* `provided_weights` as a condition: neither None nor the empty dict
Truthy(provided) == ~provided.is_none /\ DOMAIN provided.dict # {}

\* lines 317-320: weight 1 for the columns of the first row get_rows yields; the loop
\* breaks after that row
EquallyImportantWeights(m) ==
    IF get_rows(m) = <<>> THEN EmptyDict
    ELSE [q \in DOMAIN m.rows[get_rows(m)[1]] |-> 1]

\* weights[quality] = weights.get(quality, 0) + 1
AddOne(weights, quality) ==
    [q \in DOMAIN weights \cup {quality} |->
        IF q = quality THEN GetOrZero(weights, q) + 1 ELSE weights[q]]

\* for quality in req.quality_attributes (lines 325-326)
RECURSIVE CountQualities(_, _)
CountQualities(weights, quality_attributes) ==
    IF quality_attributes = <<>> THEN weights
    ELSE CountQualities(AddOne(weights, Head(quality_attributes)), Tail(quality_attributes))

\* for req in cg.requirements (line 324)
RECURSIVE CountRequirements(_, _, _)
CountRequirements(weights, reqs, ids) ==
    IF ids = <<>> THEN weights
    ELSE CountRequirements(CountQualities(weights, ReqById(reqs, Head(ids)).quality_attributes),
                           reqs, Tail(ids))

\* for cg in satisfiable_group.condition_groups (line 323)
RECURSIVE InferredWeights(_, _, _, _)
InferredWeights(weights, reqs, groups, sg) ==
    IF sg = <<>> THEN weights
    ELSE InferredWeights(CountRequirements(weights, reqs, groups[Head(sg)].requirements),
                         reqs, groups, Tail(sg))

\* Architect._calculate_quality_weights
calculate_quality_weights(sg, mode, provided, m, reqs, groups) ==
    IF mode = "Provided" /\ Truthy(provided) THEN provided.dict
    ELSE IF mode = "EquallyImportant" THEN EquallyImportantWeights(m)
    ELSE InferredWeights(EmptyDict, reqs, groups, sg)

\* the matrix is drawn where the mode reads it (EquallyImportant) and provided_weights
\* where the mode reads it (Provided); the requirements are drawn in every mode
InitWeights ==
    /\ weights_mode \in WeightModes
    /\ matrix \in (IF weights_mode = "EquallyImportant" THEN WeightMatrices ELSE {EmptyMatrix})
    /\ provided_weights \in (IF weights_mode = "Provided" THEN ProvidedChoices ELSE {NoneWeights})
    /\ \E input \in GroupedInputs :
         /\ asrs = input.asrs
         /\ condition_groups = input.condition_groups
         /\ satisfiable_groups = input.satisfiable_groups
    /\ sg_index = 0
    /\ quality_weights = EmptyDict
    /\ part_pc = "done" /\ attempts = 0 /\ fell_back = FALSE
    /\ desired_qualities = <<>> /\ column_weights = EmptyDict
    /\ group_order = <<>> /\ greedy_out = NotRun /\ ilp_out = NotRun /\ solver_status = "none"
    /\ embeddings = <<>> /\ cluster_map = <<>> /\ cluster_i = 0 /\ req_j = 0
    /\ cluster_groups = <<>> /\ group_pc = "done"
    /\ norm_weights = EmptyDict /\ normalized = EmptyDict /\ norm_pc = "idle"
    /\ concerns = <<>> /\ an_pc = "idle" /\ runs = 0 /\ results = <<>> /\ optimization_mode = "ILP" /\ solver_available = TRUE /\ solve_log = <<>> /\ summary = <<>>
    /\ id_counter = 0 /\ parser_requirements = << <<>>, <<>> >> /\ load_pc = <<"idle", "idle">> /\ load_lines = << <<>>, <<>> >> /\ load_read = <<0, 0>> /\ loads = 0 /\ last_load = [parser |-> 0, text |-> <<>>]
    /\ vllm_process = "none" /\ current_model = "none" /\ idle_timer = [state |-> "none", request |-> 0] /\ run_pc = "idle" /\ run_model = "none" /\ start_returned = [request |-> 0, model |-> "none", value |-> FALSE, process |-> "none", current_model |-> "none"] /\ requests = 0
    /\ oracle_response = <<>>
    /\ inertia = <<>> /\ labelling = "round_robin" /\ clustered = NotClustered /\ equivalent = <<>> /\ equivalence_calls = <<>>
    /\ csv_table = [header |-> <<>>, rows |-> <<>>] /\ matrix_loaded = TRUE
    /\ api_settings = [given |-> FALSE, quality_weights_mode |-> "Inferred", provided_weights |-> NoneWeights] /\ api_pc = "idle"

\* lines 105-109: the weights of the next SatisfiableGroup
CalculateWeights ==
    /\ sg_index < Len(satisfiable_groups)
    /\ sg_index' = sg_index + 1
    /\ quality_weights' = calculate_quality_weights(satisfiable_groups[sg_index'], weights_mode,
                              provided_weights, matrix, asrs, condition_groups)
    /\ UNCHANGED <<weights_mode, provided_weights>>
    /\ UNCHANGED <<optVars, partVars, groupVars, normVars, analyzeVars, loadVars, vllmVars>>
    /\ UNCHANGED <<api_settings, api_pc>>

NextWeights == CalculateWeights

----------------------------------------------------------------------------
(* Architect._normalize_weights (architect.py 330-336).                    *)

\* largest small weight drawn for the normalizer
MaxNormWeight == 3

\* the weight maps handed to _normalize_weights: small weights, negative and zero
\* included (provided weights are not validated), and weights near 100 so that a map
\* can sum to 100
NormWeightDicts ==
    LET values == (-1..MaxNormWeight) \cup ((100 - MaxNormWeight)..100)
    IN  UNION { [qs -> values] : qs \in SUBSET Qualities }

\* integer division that rounds toward zero
TruncDiv(a, b) ==
    LET abs(x) == IF x < 0 THEN -x ELSE x
        q == abs(a) \div abs(b)
    IN  IF (a < 0) = (b < 0) THEN q ELSE -q

\* Python's a // b on integers: the quotient rounded toward minus infinity
FloorDiv(a, b) ==
    LET abs(x) == IF x < 0 THEN -x ELSE x
        q == abs(a) \div abs(b)
        exact == q * abs(b) = abs(a)
    IN  IF (a < 0) = (b < 0) THEN q
        ELSE IF exact THEN -q ELSE -q - 1

\* Architect._normalize_weights: the argument itself when the total is 0, else a new
\* dict {k: (v * 100) // total}
normalize_weights(weights) ==
    LET total == WeightSum(weights)
    IN  IF total = 0 THEN weights
        ELSE [k \in DOMAIN weights |-> FloorDiv(weights[k] * 100, total)]

InitNorm ==
    /\ norm_weights \in NormWeightDicts
    /\ normalized = EmptyDict
    /\ norm_pc = "start"
    /\ matrix = EmptyMatrix /\ desired_qualities = <<>> /\ column_weights = EmptyDict
    /\ group_order = <<>> /\ greedy_out = NotRun /\ ilp_out = NotRun /\ solver_status = "none"
    /\ condition_groups = <<>> /\ satisfiable_groups = <<>> /\ part_pc = "idle"
    /\ attempts = 0 /\ fell_back = FALSE
    /\ asrs = <<>> /\ embeddings = <<>> /\ cluster_map = <<>> /\ cluster_i = 0 /\ req_j = 0
    /\ cluster_groups = <<>> /\ group_pc = "idle"
    /\ weights_mode = "Inferred" /\ provided_weights = NoneWeights /\ sg_index = 0
    /\ quality_weights = EmptyDict
    /\ concerns = <<>> /\ an_pc = "idle" /\ runs = 0 /\ results = <<>> /\ optimization_mode = "ILP" /\ solver_available = TRUE /\ solve_log = <<>> /\ summary = <<>>
    /\ id_counter = 0 /\ parser_requirements = << <<>>, <<>> >> /\ load_pc = <<"idle", "idle">> /\ load_lines = << <<>>, <<>> >> /\ load_read = <<0, 0>> /\ loads = 0 /\ last_load = [parser |-> 0, text |-> <<>>]
    /\ vllm_process = "none" /\ current_model = "none" /\ idle_timer = [state |-> "none", request |-> 0] /\ run_pc = "idle" /\ run_model = "none" /\ start_returned = [request |-> 0, model |-> "none", value |-> FALSE, process |-> "none", current_model |-> "none"] /\ requests = 0
    /\ oracle_response = <<>>
    /\ inertia = <<>> /\ labelling = "round_robin" /\ clustered = NotClustered /\ equivalent = <<>> /\ equivalence_calls = <<>>
    /\ csv_table = [header |-> <<>>, rows |-> <<>>] /\ matrix_loaded = TRUE
    /\ api_settings = [given |-> FALSE, quality_weights_mode |-> "Inferred", provided_weights |-> NoneWeights] /\ api_pc = "idle"

\* one call of _normalize_weights; the argument is read, never assigned to
NormalizeWeights ==
    /\ norm_pc = "start"
    /\ normalized' = normalize_weights(norm_weights)
    /\ norm_pc' = "done"
    /\ UNCHANGED norm_weights
    /\ UNCHANGED <<optVars, partVars, groupVars, weightVars, analyzeVars, loadVars, vllmVars>>

----------------------------------------------------------------------------
(* Architect.analyze (architect.py 52-136), Concern (concern.py 23-73) and *)
(* Architect.get_results_summary (architect.py 338-346).                   *)

\* most analyze calls made on one Architect
MaxRuns == 2

\* a float that is the quotient num / den of two integers
Quotient(num, den) == [num |-> num, den |-> den, raised |-> FALSE]

\* 0.0
ZeroFloat == Quotient(0, 1)

\* Concern(satisfiable_group=sg, desired_qualities=dict(...), decisions=decisions)
Concern(satisfiable_group, desired, decisions) ==
    [satisfiable_group |-> satisfiable_group, desired_qualities |-> desired, decisions |-> decisions]

\* Concern.total_score: sum(d.score for d in self.decisions)
total_score(concern) ==
    SumSeq([i \in 1..Len(concern.decisions) |-> concern.decisions[i].score])

\* average_score without the guard of lines 38-39: dividing by len([]) raises
average_score_unguarded(concern) ==
    IF Len(concern.decisions) = 0 THEN [num |-> 0, den |-> 0, raised |-> TRUE]
    ELSE Quotient(total_score(concern), Len(concern.decisions))

\* Concern.average_score: 0.0 without decisions, else the sum over the count
average_score(concern) ==
    IF concern.decisions = <<>> THEN ZeroFloat
    ELSE Quotient(SumSeq([i \in 1..Len(concern.decisions) |-> concern.decisions[i].score]),
                  Len(concern.decisions))

\* Concern.to_dict: the scores and the decisions it reports
to_dict(concern) ==
    [average_score |-> average_score(concern), total_score |-> total_score(concern),
     decisions |-> concern.decisions]

\* list(self.quality_weights.keys()); a dict has no key twice, and the optimizer reads
\* the list by membership and by sum only, so the header order stands for any order
KeysList(dict) == SelectSeq(QualityOrder, LAMBDA q : q \in DOMAIN dict)

\* the matrices of the analysis: full rows of two kinds, for any subset of the patterns
AnalysisMatrices ==
    { m \in Matrices :
        \A p \in DOMAIN m.rows :
            m.rows[p] \in { [q \in Qualities |-> 1],
                            [q \in Qualities |-> IF q = QualityOrder[1] THEN -1 ELSE 1] } }

\* what parsing, grouping and partitioning leave (steps 1-3): no ASR at all, or one or
\* two ASRs each naming one quality, in one SatisfiableGroup or in two
AnalysisInputs ==
    { [asrs |-> <<>>, condition_groups |-> <<>>, satisfiable_groups |-> <<>>] }
    \cup { g \in GroupedInputs :
             /\ \A i \in 1..Len(g.asrs) : g.asrs[i].quality_attributes = << QualityOrder[i] >>
             /\ g.satisfiable_groups \in { << <<1>> >>, << <<1, 2>> >>, << <<1>>, <<2>> >> } }

\* the list an analyze call returned: Architect.concerns itself (line 136) or the new
\* empty list of line 93; at_return is what it held when the call returned
ReturnedList(list, at_return) == [list |-> list, at_return |-> at_return]

\* what the caller finds in a returned list now
ListValue(result) == IF result.list = "self.concerns" THEN concerns ELSE result.at_return

\* an Architect just constructed (architect.py 39-50) with its matrix and, fixed for
\* all its calls, the arguments of analyze and the solver's availability
InitAnalyze ==
    /\ matrix \in AnalysisMatrices
    /\ optimization_mode \in {"ILP", "Greedy"}
    /\ solver_available \in BOOLEAN
    /\ weights_mode \in {"Inferred", "EquallyImportant", "Provided"}
    /\ provided_weights \in (IF weights_mode = "Provided"
                             THEN { SomeWeights(d) : d \in { w \in WeightDicts : DOMAIN w = Qualities } }
                             ELSE {NoneWeights})
    /\ concerns = <<>> /\ an_pc = "idle" /\ runs = 0 /\ results = <<>>
    /\ solve_log = <<>> /\ summary = <<>>
    /\ asrs = <<>> /\ condition_groups = <<>> /\ satisfiable_groups = <<>>
    /\ sg_index = 0 /\ quality_weights = EmptyDict
    /\ desired_qualities = <<>> /\ column_weights = EmptyDict
    /\ group_order = <<>> /\ greedy_out = NotRun /\ ilp_out = NotRun /\ solver_status = "none"
    /\ part_pc = "idle" /\ attempts = 0 /\ fell_back = FALSE
    /\ embeddings = <<>> /\ cluster_map = <<>> /\ cluster_i = 0 /\ req_j = 0
    /\ cluster_groups = <<>> /\ group_pc = "idle"
    /\ norm_weights = EmptyDict /\ normalized = EmptyDict /\ norm_pc = "idle"
    /\ id_counter = 0 /\ parser_requirements = << <<>>, <<>> >> /\ load_pc = <<"idle", "idle">> /\ load_lines = << <<>>, <<>> >> /\ load_read = <<0, 0>> /\ loads = 0 /\ last_load = [parser |-> 0, text |-> <<>>]
    /\ vllm_process = "none" /\ current_model = "none" /\ idle_timer = [state |-> "none", request |-> 0] /\ run_pc = "idle" /\ run_model = "none" /\ start_returned = [request |-> 0, model |-> "none", value |-> FALSE, process |-> "none", current_model |-> "none"] /\ requests = 0
    /\ oracle_response = <<>>
    /\ inertia = <<>> /\ labelling = "round_robin" /\ clustered = NotClustered /\ equivalent = <<>> /\ equivalence_calls = <<>>
    /\ csv_table = [header |-> <<>>, rows |-> <<>>] /\ matrix_loaded = TRUE
    /\ api_settings = [given |-> FALSE, quality_weights_mode |-> "Inferred", provided_weights |-> NoneWeights] /\ api_pc = "idle"

\* lines 73-101: the lists are cleared in place; parsing, grouping and partitioning
\* leave the ASRs and their groups; without an ASR the call returns a new empty list
AnalyzeStart ==
    /\ an_pc \in {"idle", "returned", "raised"}
    /\ runs < MaxRuns
    /\ runs' = runs + 1
    /\ concerns' = <<>>
    /\ quality_weights' = EmptyDict
    /\ sg_index' = 0
    /\ solve_log' = <<>>
    /\ summary' = <<>>
    /\ \E input \in AnalysisInputs :
         /\ asrs' = input.asrs
         /\ condition_groups' = input.condition_groups
         /\ satisfiable_groups' = input.satisfiable_groups
         /\ IF input.asrs = <<>>
            THEN an_pc' = "returned" /\ results' = Append(results, ReturnedList("new", <<>>))
            ELSE an_pc' = "loop" /\ UNCHANGED results
    /\ UNCHANGED <<weights_mode, provided_weights, optimization_mode, solver_available>>
    /\ UNCHANGED <<part_pc, attempts, fell_back, embeddings, cluster_map, cluster_i, req_j,
                   cluster_groups, group_pc>>
    /\ UNCHANGED <<optVars, normVars, loadVars, vllmVars>>
    /\ UNCHANGED oracle_response
    /\ UNCHANGED <<inertia, labelling, clustered, equivalent, equivalence_calls>>
    /\ UNCHANGED <<api_settings, api_pc>>

\* lines 105-124: one SatisfiableGroup.  Its weights are calculated and normalized and
\* optimize is called; the solver, when there is one, reports OPTIMAL or not; a Concern
\* is appended, unless optimize raises, which ends analyze; solve_log keeps how the
\* optimization of each group ended
AnalyzeGroup ==
    /\ an_pc = "loop"
    /\ sg_index < Len(satisfiable_groups)
    /\ LET sg == satisfiable_groups[sg_index + 1]
           calculated == calculate_quality_weights(sg, weights_mode, provided_weights, matrix,
                                                   asrs, condition_groups)
           desired == KeysList(calculated)
           column == normalize_weights(calculated)
           raises == \E g \in get_all_groups(matrix) : get_rows_by_group_raises(matrix, g)
       IN  \E order \in Permutations_(get_all_groups(matrix)), status \in {"OPTIMAL", "NOT_OPTIMAL"} :
             LET outcome == IF solver_available THEN status ELSE "NO_SOLVER"
                 solved == optimization_mode = "ILP" /\ outcome = "OPTIMAL" /\ ~raises
             IN  \E x \in (IF solved THEN IlpOptimal(matrix, desired, column) ELSE {EmptyDict}) :
                   LET out == optimize(optimization_mode, desired, matrix, column, order, outcome, x)
                       ended == IF optimization_mode # "ILP" THEN "GREEDY"
                                ELSE IF outcome = "NO_SOLVER" THEN "NO_SOLVER"
                                ELSE IF raises THEN "KEYERROR"
                                ELSE outcome
                   IN  /\ quality_weights' = calculated
                       /\ solve_log' = Append(solve_log, ended)
                       /\ IF out.status = "raised"
                          THEN an_pc' = "raised" /\ UNCHANGED <<concerns, sg_index>>
                          ELSE /\ concerns' = Append(concerns, Concern(sg, calculated, out.decisions))
                               /\ sg_index' = sg_index + 1
                               /\ an_pc' = "loop"
    /\ UNCHANGED <<runs, results, summary, optimization_mode, solver_available>>
    /\ UNCHANGED <<weights_mode, provided_weights, asrs, condition_groups, satisfiable_groups>>
    /\ UNCHANGED <<part_pc, attempts, fell_back, embeddings, cluster_map, cluster_i, req_j,
                   cluster_groups, group_pc>>
    /\ UNCHANGED <<optVars, normVars, loadVars, vllmVars>>
    /\ UNCHANGED oracle_response
    /\ UNCHANGED <<inertia, labelling, clustered, equivalent, equivalence_calls>>
    /\ UNCHANGED <<api_settings, api_pc>>

\* lines 126-136: `return self.concerns, report`
AnalyzeReturn ==
    /\ an_pc = "loop"
    /\ sg_index = Len(satisfiable_groups)
    /\ an_pc' = "returned"
    /\ results' = Append(results, ReturnedList("self.concerns", concerns))
    /\ UNCHANGED <<concerns, runs, optimization_mode, solver_available, solve_log, summary>>
    /\ UNCHANGED <<optVars, partVars, groupVars, weightVars, normVars, loadVars, vllmVars>>

\* get_results_summary after a call that returned concerns: c.to_dict() for each
GetResultsSummary ==
    /\ an_pc = "returned"
    /\ concerns # <<>>
    /\ summary = <<>>
    /\ summary' = [i \in 1..Len(concerns) |-> to_dict(concerns[i])]
    /\ UNCHANGED <<concerns, an_pc, runs, results, optimization_mode, solver_available, solve_log>>
    /\ UNCHANGED <<optVars, partVars, groupVars, weightVars, normVars, loadVars, vllmVars>>

(***************************************************************************)
(* RequirementParser.load_from_text (parser_service.py 32-42) and the ids  *)
(* Requirement.__post_init__ gives (requirement.py 20, 36-39, 62-64).      *)
(***************************************************************************)

MaxTextLen == 4
MaxLoads == 2

\* the texts a caller may pass, of a letter, the blank and the newline
Texts == UNION { [1..n -> {"a", " ", "\n"}] : n \in 0..MaxTextLen }

\* what str.strip() removes from these texts
TextWhitespace == {" ", "\n"}

RECURSIVE SplitLinesFrom(_, _, _)
\* str.split("\n"): the pieces between newlines, empty pieces included
SplitLinesFrom(str, start, i) ==
    IF i > Len(str) THEN << SubSeq(str, start, Len(str)) >>
    ELSE IF str[i] = "\n" THEN << SubSeq(str, start, i - 1) >> \o SplitLinesFrom(str, i + 1, i + 1)
    ELSE SplitLinesFrom(str, start, i + 1)

\* lines 38-42, the lines that become requirements: text.strip().split("\n"), each
\* line stripped and kept `if line`
LinesToLoad(text) ==
    LET lines == SplitLinesFrom(StripChars(text, TextWhitespace), 1, 1)
        stripped == [i \in 1..Len(lines) |-> StripChars(lines[i], TextWhitespace)]
    IN  SelectSeq(stripped, LAMBDA line : line # <<>>)

\* the two RequirementParser objects, one per thread when calls are concurrent
Parsers == {1, 2}

\* a caller that never resets the counter
keep_id_counter(counter) == counter

\* Requirement.reset_id_counter: cls._id_counter = 0
reset_id_counter(counter) == 0

InitLoad ==
    /\ id_counter \in 0..2
    /\ parser_requirements = [p \in Parsers |-> <<>>]
    /\ load_pc = [p \in Parsers |-> "idle"]
    /\ load_lines = [p \in Parsers |-> <<>>]
    /\ load_read = [p \in Parsers |-> 0]
    /\ loads = 0
    /\ last_load = [parser |-> 0, text |-> <<>>]
    /\ matrix = EmptyMatrix /\ desired_qualities = <<>> /\ column_weights = EmptyDict
    /\ group_order = <<>> /\ greedy_out = NotRun /\ ilp_out = NotRun /\ solver_status = "none"
    /\ condition_groups = <<>> /\ satisfiable_groups = <<>>
    /\ part_pc = "idle" /\ attempts = 0 /\ fell_back = FALSE
    /\ asrs = <<>> /\ embeddings = <<>> /\ cluster_map = <<>> /\ cluster_i = 0 /\ req_j = 0
    /\ cluster_groups = <<>> /\ group_pc = "idle"
    /\ weights_mode = "Inferred" /\ provided_weights = NoneWeights
    /\ sg_index = 0 /\ quality_weights = EmptyDict
    /\ norm_weights = EmptyDict /\ normalized = EmptyDict /\ norm_pc = "idle"
    /\ concerns = <<>> /\ an_pc = "idle" /\ runs = 0 /\ results = <<>>
    /\ optimization_mode = "ILP" /\ solver_available = TRUE /\ solve_log = <<>> /\ summary = <<>>
    /\ vllm_process = "none" /\ current_model = "none" /\ idle_timer = [state |-> "none", request |-> 0] /\ run_pc = "idle" /\ run_model = "none" /\ start_returned = [request |-> 0, model |-> "none", value |-> FALSE, process |-> "none", current_model |-> "none"] /\ requests = 0
    /\ oracle_response = <<>>
    /\ inertia = <<>> /\ labelling = "round_robin" /\ clustered = NotClustered /\ equivalent = <<>> /\ equivalence_calls = <<>>
    /\ csv_table = [header |-> <<>>, rows |-> <<>>] /\ matrix_loaded = TRUE
    /\ api_settings = [given |-> FALSE, quality_weights_mode |-> "Inferred", provided_weights |-> NoneWeights] /\ api_pc = "idle"

\* lines 34-38 of a call on one parser: the class counter is reset, the parser's list is
\* cleared and the text is split.  Calls made one after another start when no call
\* is running; concurrent requests start whenever their own parser is idle.
CallLoadFromText(one_after_another) ==
    /\ loads < MaxLoads
    /\ \E p \in Parsers, text \in Texts :
         /\ load_pc[p] = "idle"
         /\ one_after_another => \A q \in Parsers : load_pc[q] = "idle"
         /\ id_counter' = reset_id_counter(id_counter)
         /\ parser_requirements' = [parser_requirements EXCEPT ![p] = <<>>]
         /\ LET lines == LinesToLoad(text)
            IN  /\ load_lines' = [load_lines EXCEPT ![p] = lines]
                /\ load_pc' = [load_pc EXCEPT ![p] = IF lines = <<>> THEN "idle" ELSE "read"]
         /\ last_load' = [parser |-> p, text |-> text]
    /\ loads' = loads + 1
    /\ UNCHANGED load_read
    /\ UNCHANGED <<optVars, partVars, groupVars, weightVars, normVars, analyzeVars, vllmVars>>

\* requirement.py 38, first half of `Requirement._id_counter += 1`: the counter is read
ReadCounter ==
    /\ \E p \in Parsers :
         /\ load_pc[p] = "read"
         /\ load_read' = [load_read EXCEPT ![p] = id_counter]
         /\ load_pc' = [load_pc EXCEPT ![p] = "store"]
    /\ UNCHANGED <<id_counter, parser_requirements, load_lines, loads, last_load>>
    /\ UNCHANGED <<optVars, partVars, groupVars, weightVars, normVars, analyzeVars, vllmVars>>

\* requirement.py 38, second half: the value read, plus one, is stored
StoreCounter ==
    /\ \E p \in Parsers :
         /\ load_pc[p] = "store"
         /\ id_counter' = load_read[p] + 1
         /\ load_pc' = [load_pc EXCEPT ![p] = "assign"]
    /\ UNCHANGED <<parser_requirements, load_lines, load_read, loads, last_load>>
    /\ UNCHANGED <<optVars, partVars, groupVars, weightVars, normVars, analyzeVars, vllmVars>>

\* requirement.py 39 and parser_service.py 42: self.id = Requirement._id_counter, and
\* the requirement is appended; the loop goes to the next line or the call returns
AssignId ==
    /\ \E p \in Parsers :
         /\ load_pc[p] = "assign"
         /\ parser_requirements' =
              [parser_requirements EXCEPT ![p] =
                 Append(@, [id |-> id_counter, description |-> Head(load_lines[p])])]
         /\ load_lines' = [load_lines EXCEPT ![p] = Tail(@)]
         /\ load_pc' = [load_pc EXCEPT ![p] = IF Tail(load_lines[p]) = <<>> THEN "idle" ELSE "read"]
    /\ UNCHANGED <<id_counter, load_read, loads, last_load>>
    /\ UNCHANGED <<optVars, partVars, groupVars, weightVars, normVars, analyzeVars, vllmVars>>

(***************************************************************************)
(* VLLMServerManager (vllm_manager.py) as the Gradio handler drives it:    *)
(* analyze_requirements runs run_analysis in an event loop of its own      *)
(* (gradio_app.py 293), on the one manager of the process (31-39).         *)
(***************************************************************************)

MaxRequests == 3

\* _cancel_idle_timer (lines 271-275): a sleeping task is cancelled
CancelIdleTimer(timer) == IF timer.state = "sleeping" THEN [timer EXCEPT !.state = "cancelled"] ELSE timer

InitVllm ==
    /\ vllm_process = "none"
    /\ current_model = "none"
    /\ idle_timer = [state |-> "none", request |-> 0]
    /\ run_pc = "idle"
    /\ run_model = "none"
    /\ start_returned = [request |-> 0, model |-> "none", value |-> FALSE, process |-> "none",
                         current_model |-> "none"]
    /\ requests = 0
    /\ matrix = EmptyMatrix /\ desired_qualities = <<>> /\ column_weights = EmptyDict
    /\ group_order = <<>> /\ greedy_out = NotRun /\ ilp_out = NotRun /\ solver_status = "none"
    /\ condition_groups = <<>> /\ satisfiable_groups = <<>>
    /\ part_pc = "idle" /\ attempts = 0 /\ fell_back = FALSE
    /\ asrs = <<>> /\ embeddings = <<>> /\ cluster_map = <<>> /\ cluster_i = 0 /\ req_j = 0
    /\ cluster_groups = <<>> /\ group_pc = "idle"
    /\ weights_mode = "Inferred" /\ provided_weights = NoneWeights
    /\ sg_index = 0 /\ quality_weights = EmptyDict
    /\ norm_weights = EmptyDict /\ normalized = EmptyDict /\ norm_pc = "idle"
    /\ concerns = <<>> /\ an_pc = "idle" /\ runs = 0 /\ results = <<>>
    /\ optimization_mode = "ILP" /\ solver_available = TRUE /\ solve_log = <<>> /\ summary = <<>>
    /\ id_counter = 0 /\ parser_requirements = << <<>>, <<>> >> /\ load_pc = <<"idle", "idle">>
    /\ load_lines = << <<>>, <<>> >> /\ load_read = <<0, 0>> /\ loads = 0
    /\ last_load = [parser |-> 0, text |-> <<>>]
    /\ oracle_response = <<>>
    /\ inertia = <<>> /\ labelling = "round_robin" /\ clustered = NotClustered /\ equivalent = <<>> /\ equivalence_calls = <<>>
    /\ csv_table = [header |-> <<>>, rows |-> <<>>] /\ matrix_loaded = TRUE
    /\ api_settings = [given |-> FALSE, quality_weights_mode |-> "Inferred", provided_weights |-> NoneWeights] /\ api_pc = "idle"

\* analyze_requirements with the vLLM backend: asyncio.run starts a new event loop for
\* run_analysis (gradio_app.py 293-302)
AnalyzeRequirements ==
    /\ run_pc = "idle"
    /\ requests < MaxRequests
    /\ requests' = requests + 1
    /\ \E model \in {"m1", "m2"} : run_model' = model
    /\ run_pc' = "start"
    /\ UNCHANGED <<vllm_process, current_model, idle_timer, start_returned>>
    /\ UNCHANGED <<optVars, partVars, groupVars, weightVars, normVars, analyzeVars, loadVars>>

\* start_server (vllm_manager.py 109-170), and what run_analysis does with its result
\* (gradio_app.py 143-158).  Below line 117 it meets everything in place, no model
\* folder, the port taken, or Popen raising.
StartServer ==
    /\ run_pc = "start"
    /\ \E condition \in {"ok", "no_path", "port_in_use", "popen_raises"} :
         LET other == vllm_process # "none" /\ current_model # run_model
             \* lines 111-112: stop_server for a server of another model
             process1 == IF other THEN "none" ELSE vllm_process
             model1 == IF other THEN "none" ELSE current_model
             timer1 == IF other THEN CancelIdleTimer(idle_timer) ELSE idle_timer
             \* lines 115-117: `self._process and self._current_model == model_path`
             same == process1 # "none" /\ model1 = run_model
             started == ~same /\ condition = "ok"
             value == same \/ started
         IN  /\ vllm_process' = IF started THEN "running" ELSE process1
             /\ current_model' = IF started THEN run_model ELSE model1
             /\ idle_timer' = IF same THEN CancelIdleTimer(timer1) ELSE timer1
             /\ start_returned' = [request |-> requests, model |-> run_model, value |-> value,
                                   process |-> vllm_process', current_model |-> current_model']
             /\ run_pc' = IF value THEN "wait" ELSE "return"
    /\ UNCHANGED <<run_model, requests>>
    /\ UNCHANGED <<optVars, partVars, groupVars, weightVars, normVars, analyzeVars, loadVars>>

\* wait_for_ready(timeout=300) (vllm_manager.py 225-264): False when the process is
\* not running or at the timeout, and run_analysis returns an error (gradio_app.py 160-170)
WaitForReady ==
    /\ run_pc = "wait"
    /\ \E ready \in BOOLEAN :
         run_pc' = IF vllm_process = "running" /\ ready THEN "analyze" ELSE "return"
    /\ UNCHANGED <<vllm_process, current_model, idle_timer, run_model, start_returned, requests>>
    /\ UNCHANGED <<optVars, partVars, groupVars, weightVars, normVars, analyzeVars, loadVars>>

\* gradio_app.py 176-191: the analysis, and after it start_idle_timer
\* (vllm_manager.py 266-269); an exception of the analysis skips the timer (199-207)
RunAnalysis ==
    /\ run_pc = "analyze"
    /\ \E completes \in BOOLEAN :
         idle_timer' = IF completes THEN [state |-> "sleeping", request |-> requests] ELSE idle_timer
    /\ run_pc' = "return"
    /\ UNCHANGED <<vllm_process, current_model, run_model, start_returned, requests>>
    /\ UNCHANGED <<optVars, partVars, groupVars, weightVars, normVars, analyzeVars, loadVars>>

\* _idle_timer (vllm_manager.py 277-285): the sleep of IDLE_TIMEOUT_SECONDS ends while
\* its event loop is still running, and stop_server runs
IdleTimeout ==
    /\ idle_timer.state = "sleeping"
    /\ run_pc # "idle"
    /\ idle_timer' = [idle_timer EXCEPT !.state = "fired"]
    /\ vllm_process' = "none"
    /\ current_model' = "none"
    /\ UNCHANGED <<run_pc, run_model, start_returned, requests>>
    /\ UNCHANGED <<optVars, partVars, groupVars, weightVars, normVars, analyzeVars, loadVars>>

\* run_analysis returns and asyncio.run closes its loop, cancelling the tasks still
\* pending in it (gradio_app.py 293-302)
RunReturns ==
    /\ run_pc = "return"
    /\ run_pc' = "idle"
    /\ idle_timer' = IF idle_timer.state = "sleeping"
                     THEN [idle_timer EXCEPT !.state = "cancelled_at_loop_close"]
                     ELSE idle_timer
    /\ UNCHANGED <<vllm_process, current_model, run_model, start_returned, requests>>
    /\ UNCHANGED <<optVars, partVars, groupVars, weightVars, normVars, analyzeVars, loadVars>>

\* the server process ends by itself: poll() is no longer None (lines 218-223)
ProcessExits ==
    /\ vllm_process = "running"
    /\ vllm_process' = "exited"
    /\ UNCHANGED <<current_model, idle_timer, run_pc, run_model, start_returned, requests>>
    /\ UNCHANGED <<optVars, partVars, groupVars, weightVars, normVars, analyzeVars, loadVars>>

\* stop_server (vllm_manager.py 172-216) called between requests, as the cleanup does
StopServer ==
    /\ run_pc = "idle"
    /\ vllm_process # "none"
    /\ idle_timer' = [state |-> "none", request |-> 0]
    /\ vllm_process' = "none"
    /\ current_model' = "none"
    /\ UNCHANGED <<run_pc, run_model, start_returned, requests>>
    /\ UNCHANGED <<optVars, partVars, groupVars, weightVars, normVars, analyzeVars, loadVars>>

(***************************************************************************)
(* Architect._parse_satisfiable_groups_response (architect.py 274-301) on  *)
(* one response, as the retry loop calls it (line 263).                    *)
(***************************************************************************)

\* the Architect before the call: two or three ConditionGroups, the first of them the
\* "under any circumstances" group, no SatisfiableGroup yet, and any response
InitParse ==
    /\ condition_groups \in { g \in ConditionGroupLists :
                                /\ Len(g) >= 2
                                /\ \A i \in 1..Len(g) :
                                     g[i].nominal_condition = IF i = 1 THEN ANY_CIRCUMSTANCES_CONDITION
                                                              ELSE "if offline" }
    /\ asrs = [i \in 1..Len(condition_groups) |-> Requirement(i, condition_groups[i].nominal_condition, <<>>)]
    /\ oracle_response \in Responses
    /\ satisfiable_groups = <<>>
    /\ part_pc = "parse"
    /\ attempts = 0
    /\ fell_back = FALSE
    /\ matrix = EmptyMatrix /\ desired_qualities = <<>> /\ column_weights = EmptyDict
    /\ group_order = <<>> /\ greedy_out = NotRun /\ ilp_out = NotRun /\ solver_status = "none"
    /\ embeddings = <<>> /\ cluster_map = <<>> /\ cluster_i = 0 /\ req_j = 0
    /\ cluster_groups = <<>> /\ group_pc = "done"
    /\ weights_mode = "Inferred" /\ provided_weights = NoneWeights /\ sg_index = 0
    /\ quality_weights = EmptyDict
    /\ norm_weights = EmptyDict /\ normalized = EmptyDict /\ norm_pc = "idle"
    /\ concerns = <<>> /\ an_pc = "idle" /\ runs = 0 /\ results = <<>>
    /\ optimization_mode = "ILP" /\ solver_available = TRUE /\ solve_log = <<>> /\ summary = <<>>
    /\ id_counter = 0 /\ parser_requirements = << <<>>, <<>> >> /\ load_pc = <<"idle", "idle">>
    /\ load_lines = << <<>>, <<>> >> /\ load_read = <<0, 0>> /\ loads = 0
    /\ last_load = [parser |-> 0, text |-> <<>>]
    /\ vllm_process = "none" /\ current_model = "none"
    /\ idle_timer = [state |-> "none", request |-> 0] /\ run_pc = "idle" /\ run_model = "none"
    /\ start_returned = [request |-> 0, model |-> "none", value |-> FALSE, process |-> "none",
                         current_model |-> "none"]
    /\ requests = 0
    /\ inertia = <<>> /\ labelling = "round_robin" /\ clustered = NotClustered /\ equivalent = <<>> /\ equivalence_calls = <<>>
    /\ csv_table = [header |-> <<>>, rows |-> <<>>] /\ matrix_loaded = TRUE
    /\ api_settings = [given |-> FALSE, quality_weights_mode |-> "Inferred", provided_weights |-> NoneWeights] /\ api_pc = "idle"

\* self._parse_satisfiable_groups_response(response)
ParseResponse ==
    /\ part_pc = "parse"
    /\ satisfiable_groups' =
         satisfiable_groups \o parse_satisfiable_groups_response(oracle_response, Len(condition_groups))
    /\ part_pc' = "parsed"
    /\ UNCHANGED <<condition_groups, attempts, fell_back, oracle_response>>
    /\ UNCHANGED <<optVars, groupVars, weightVars, normVars, analyzeVars, loadVars, vllmVars>>

----------------------------------------------------------------------------
(* ClusteringService.cluster_conditions (clustering_service.py 10-82) on   *)
(* its own, for every number of vectors up to MaxVectors.                  *)

InitCluster ==
    /\ asrs = <<>>
    /\ condition_groups = <<>>
    /\ group_pc = "cluster_conditions"
    /\ embeddings \in { [i \in 1..n |-> <<1>>] : n \in 0..MaxVectors }
    /\ cluster_map = <<>> /\ cluster_i = 0 /\ req_j = 0
    /\ cluster_groups = <<>>
    /\ satisfiable_groups = <<>> /\ part_pc = "idle" /\ attempts = 0 /\ fell_back = FALSE
    /\ matrix = EmptyMatrix /\ desired_qualities = <<>> /\ column_weights = EmptyDict
    /\ group_order = <<>> /\ greedy_out = NotRun /\ ilp_out = NotRun /\ solver_status = "none"
    /\ weights_mode = "Inferred" /\ provided_weights = NoneWeights /\ sg_index = 0
    /\ quality_weights = EmptyDict
    /\ norm_weights = EmptyDict /\ normalized = EmptyDict /\ norm_pc = "idle"
    /\ concerns = <<>> /\ an_pc = "idle" /\ runs = 0 /\ results = <<>> /\ optimization_mode = "ILP" /\ solver_available = TRUE /\ solve_log = <<>> /\ summary = <<>>
    /\ id_counter = 0 /\ parser_requirements = << <<>>, <<>> >> /\ load_pc = <<"idle", "idle">> /\ load_lines = << <<>>, <<>> >> /\ load_read = <<0, 0>> /\ loads = 0 /\ last_load = [parser |-> 0, text |-> <<>>]
    /\ vllm_process = "none" /\ current_model = "none" /\ idle_timer = [state |-> "none", request |-> 0] /\ run_pc = "idle" /\ run_model = "none" /\ start_returned = [request |-> 0, model |-> "none", value |-> FALSE, process |-> "none", current_model |-> "none"] /\ requests = 0
    /\ oracle_response = <<>>
    /\ inertia \in Inertias /\ labelling \in Labellings /\ clustered = NotClustered /\ equivalent = <<>> /\ equivalence_calls = <<>>
    /\ csv_table = [header |-> <<>>, rows |-> <<>>] /\ matrix_loaded = TRUE
    /\ api_settings = [given |-> FALSE, quality_weights_mode |-> "Inferred", provided_weights |-> NoneWeights] /\ api_pc = "idle"

\* cluster_conditions(embeddings) with the default max_clusters
ClusterConditions ==
    /\ group_pc = "cluster_conditions"
    /\ clustered' = cluster_conditions(Len(embeddings), inertia, labelling)
    /\ group_pc' = "clustered"
    /\ UNCHANGED <<asrs, embeddings, cluster_map, cluster_i, req_j, cluster_groups>>
    /\ UNCHANGED <<inertia, labelling, equivalent, equivalence_calls>>
    /\ UNCHANGED <<optVars, partVars, weightVars, normVars, analyzeVars, loadVars, vllmVars>>

----------------------------------------------------------------------------
(* The merge loop of _generate_condition_groups (architect.py 181-214)     *)
(* with enough conditioned ASRs for K-Means to run.                        *)

\* the numbers of conditioned ASRs: below and at the least number that is clustered, and
\* one that gives three candidate k
MergeSizes == {2, 14, 15, 20}

\* _generate_condition_groups after lines 141-170: the ASRs are split, the sentinel
\* group is appended and the conditioned ASRs have their embeddings, all non-empty or
\* all but the last one
InitMerge ==
    /\ \E n \in MergeSizes, any \in 0..1, odd \in ConditionTexts, even \in ConditionTexts :
         /\ asrs = [i \in 1..(any + n) |->
                       Requirement(i, IF i <= any THEN ANY_CIRCUMSTANCES_CONDITION
                                      ELSE IF (i - any) % 2 = 1 THEN odd ELSE even, <<>>)]
         /\ \E empty \in 0..1 :
              embeddings = [i \in 1..n |-> IF i > n - empty THEN <<>> ELSE <<1>>]
    /\ condition_groups = IF ReqsWithoutConditions(asrs) = <<>> THEN <<>>
                          ELSE << ConditionGroup(ANY_CIRCUMSTANCES_CONDITION, ReqsWithoutConditions(asrs)) >>
    /\ group_pc = "cluster"
    /\ cluster_map = <<>> /\ cluster_i = 0 /\ req_j = 0
    /\ cluster_groups = <<>>
    /\ satisfiable_groups = <<>> /\ part_pc = "idle" /\ attempts = 0 /\ fell_back = FALSE
    /\ matrix = EmptyMatrix /\ desired_qualities = <<>> /\ column_weights = EmptyDict
    /\ group_order = <<>> /\ greedy_out = NotRun /\ ilp_out = NotRun /\ solver_status = "none"
    /\ weights_mode = "Inferred" /\ provided_weights = NoneWeights /\ sg_index = 0
    /\ quality_weights = EmptyDict
    /\ norm_weights = EmptyDict /\ normalized = EmptyDict /\ norm_pc = "idle"
    /\ concerns = <<>> /\ an_pc = "idle" /\ runs = 0 /\ results = <<>> /\ optimization_mode = "ILP" /\ solver_available = TRUE /\ solve_log = <<>> /\ summary = <<>>
    /\ id_counter = 0 /\ parser_requirements = << <<>>, <<>> >> /\ load_pc = <<"idle", "idle">> /\ load_lines = << <<>>, <<>> >> /\ load_read = <<0, 0>> /\ loads = 0 /\ last_load = [parser |-> 0, text |-> <<>>]
    /\ vllm_process = "none" /\ current_model = "none" /\ idle_timer = [state |-> "none", request |-> 0] /\ run_pc = "idle" /\ run_model = "none" /\ start_returned = [request |-> 0, model |-> "none", value |-> FALSE, process |-> "none", current_model |-> "none"] /\ requests = 0
    /\ oracle_response = <<>>
    /\ inertia = [k \in CandidateKs |-> 0] /\ labelling \in Labellings /\ clustered = NotClustered /\ equivalent \in EquivalenceOracles /\ equivalence_calls = <<>>
    /\ csv_table = [header |-> <<>>, rows |-> <<>>] /\ matrix_loaded = TRUE
    /\ api_settings = [given |-> FALSE, quality_weights_mode |-> "Inferred", provided_weights |-> NoneWeights] /\ api_pc = "idle"

----------------------------------------------------------------------------
(* Matrix.load_from_csv and Matrix.set_element (matrix.py 27-31, 57-106).  *)
(* A line of the file is the list of cells line.split(delimiter) gives; a  *)
(* score cell is a list of characters.                                     *)

\* QA_MAPPINGS (lines 9-18), for the qualities of the model
QA_MAPPINGS == [abbr \in {"PE", "SE"} |-> IF abbr = "PE" THEN "Performance Efficiency" ELSE "Security"]

\* the header lines drawn: the abbreviations, alone or after two empty cells over the
\* category and pattern columns, or one abbreviation only
CsvHeaders == { <<"PE", "SE">>, <<"", "", "PE", "SE">>, <<"PE">> }

\* the score cells drawn: empty, blank, no integer, integers
CsvCells == { <<>>, <<" ">>, <<"x">>, <<"1">>, <<"2">> }

\* the data lines drawn for a pattern: a category, the pattern, and up to as many score
\* cells as there are qualities
CsvRows(pattern, groups) ==
    { [group |-> g, pattern |-> pattern, cells |-> c] :
        g \in groups, c \in UNION { [1..n -> CsvCells] : n \in 0..Len(QualityOrder) } }

\* the files drawn: a header and a line for the first pattern, or for both patterns
CsvTables ==
    { [header |-> h, rows |-> r] :
        h \in CsvHeaders,
        r \in { << a >> : a \in CsvRows(PatternOrder[1], {"Deployment"}) }
              \cup { << a, b >> : a \in CsvRows(PatternOrder[1], {"Deployment"}),
                                  b \in CsvRows(PatternOrder[2], Groups) } }

\* [QA_MAPPINGS.get(abbr, abbr) for abbr in header_parts] with
\* header_parts = [p.strip() for p in lines[0].split(delimiter) if p.strip()] (lines 79-81)
HeaderQualities(header) ==
    LET header_parts == SelectSeq(header, LAMBDA c : c # "")
    IN  [i \in 1..Len(header_parts) |->
            IF header_parts[i] \in DOMAIN QA_MAPPINGS THEN QA_MAPPINGS[header_parts[i]]
            ELSE header_parts[i]]

\* [p.strip() for p in cells if p.strip()] (line 85), for the score cells of a line
StrippedCells(cells) ==
    SelectSeq([i \in 1..Len(cells) |-> StripChars(cells[i], Whitespace)], LAMBDA c : c # <<>>)

\* a set_element that stores the value without creating the row first
set_element_in_existing_row(m, row_key, column_key, value) ==
    IF row_key \in DOMAIN m.rows
    THEN [m EXCEPT !.rows = [@ EXCEPT ![row_key] =
               [q \in DOMAIN @ \cup {column_key} |-> IF q = column_key THEN value ELSE @[q]]]]
    ELSE m

\* Matrix.set_element (lines 27-31)
set_element(m, row_key, column_key, value) ==
    LET row == IF row_key \in DOMAIN m.rows THEN m.rows[row_key] ELSE EmptyDict
        stored == [q \in DOMAIN row \cup {column_key} |-> IF q = column_key THEN value ELSE row[q]]
    IN  [m EXCEPT !.rows = [p \in DOMAIN m.rows \cup {row_key} |->
                               IF p = row_key THEN stored ELSE m.rows[p]]]

\* for i, value_str in enumerate(parts[2:]) (lines 93-100), from the i-th score cell on;
\* the code's i < len(qualities) is i <= Len(qualities) here
RECURSIVE StoreCells(_, _, _, _, _)
StoreCells(m, pattern, qualities, cells, i) ==
    IF i > Len(cells) THEN m
    ELSE IF i <= Len(qualities) /\ IntParses(cells[i])
         THEN StoreCells(set_element(m, pattern, qualities[i], IntOf(cells[i])),
                         pattern, qualities, cells, i + 1)
         ELSE StoreCells(m, pattern, qualities, cells, i + 1)

\* for line in lines[1:] (lines 84-100), from the k-th data line on
RECURSIVE LoadRows(_, _, _, _)
LoadRows(m, qualities, rows, k) ==
    IF k > Len(rows) THEN m
    ELSE LET parts == StrippedCells(rows[k].cells)
         IN  IF 2 + Len(parts) < 3 THEN LoadRows(m, qualities, rows, k + 1)
             ELSE LET registered ==
                          [m EXCEPT !.row_groups =
                              [p \in DOMAIN @ \cup {rows[k].pattern} |->
                                  IF p = rows[k].pattern THEN rows[k].group ELSE @[p]]]
                  IN  LoadRows(StoreCells(registered, rows[k].pattern, qualities, parts, 1),
                               qualities, rows, k + 1)

\* Matrix.load_from_csv (lines 57-102)
load_from_csv(table) == LoadRows(EmptyMatrix, HeaderQualities(table.header), table.rows, 1)

\* a file, and the Architect before its constructor loads the matrix (architect.py 40)
InitCsv ==
    /\ csv_table \in CsvTables
    /\ matrix = EmptyMatrix
    /\ desired_qualities = QualityOrder
    /\ column_weights = [q \in Qualities |-> 1]
    /\ group_order = <<>>
    /\ greedy_out = NotRun
    /\ ilp_out = NotRun
    /\ solver_status = "none"
    /\ condition_groups = <<>> /\ satisfiable_groups = <<>> /\ part_pc = "idle"
    /\ attempts = 0 /\ fell_back = FALSE
    /\ asrs = <<>> /\ embeddings = <<>> /\ cluster_map = <<>> /\ cluster_i = 0 /\ req_j = 0
    /\ cluster_groups = <<>> /\ group_pc = "idle"
    /\ weights_mode = "Inferred" /\ provided_weights = NoneWeights /\ sg_index = 0
    /\ quality_weights = EmptyDict
    /\ norm_weights = EmptyDict /\ normalized = EmptyDict /\ norm_pc = "idle"
    /\ concerns = <<>> /\ an_pc = "idle" /\ runs = 0 /\ results = <<>> /\ optimization_mode = "ILP" /\ solver_available = TRUE /\ solve_log = <<>> /\ summary = <<>>
    /\ id_counter = 0 /\ parser_requirements = << <<>>, <<>> >> /\ load_pc = <<"idle", "idle">> /\ load_lines = << <<>>, <<>> >> /\ load_read = <<0, 0>> /\ loads = 0 /\ last_load = [parser |-> 0, text |-> <<>>]
    /\ vllm_process = "none" /\ current_model = "none" /\ idle_timer = [state |-> "none", request |-> 0] /\ run_pc = "idle" /\ run_model = "none" /\ start_returned = [request |-> 0, model |-> "none", value |-> FALSE, process |-> "none", current_model |-> "none"] /\ requests = 0
    /\ oracle_response = <<>>
    /\ inertia = <<>> /\ labelling = "round_robin" /\ clustered = NotClustered /\ equivalent = <<>> /\ equivalence_calls = <<>>
    /\ matrix_loaded = FALSE
    /\ api_settings = [given |-> FALSE, quality_weights_mode |-> "Inferred", provided_weights |-> NoneWeights] /\ api_pc = "idle"

\* Architect.__init__: self.matrix = Matrix.load_from_csv(...)
LoadFromCsv ==
    /\ ~matrix_loaded
    /\ matrix' = load_from_csv(csv_table)
    /\ matrix_loaded' = TRUE
    /\ group_order' \in Permutations_(get_all_groups(matrix'))
    /\ UNCHANGED <<desired_qualities, column_weights, greedy_out, ilp_out, solver_status, csv_table>>
    /\ UNCHANGED <<partVars, groupVars, weightVars, normVars, analyzeVars, loadVars, vllmVars>>

----------------------------------------------------------------------------
(* The /api/analyze handler (routes.py 85-147) with the settings schema    *)
(* (schemas.py 13-33): how the request's weight mode reaches the Architect.*)

\* QualityWeightsMode of the API schema (schemas.py 13-17)
ApiWeightModes == {"EquallyImportant", "Inferred", "Provided"}

\* the request bodies drawn: no settings, or AnalysisSettings with a weight mode and,
\* in mode Provided, provided_weights or none
ApiSettings ==
    { [given |-> FALSE, quality_weights_mode |-> "Inferred", provided_weights |-> NoneWeights] }
    \cup UNION { { [given |-> TRUE, quality_weights_mode |-> mode, provided_weights |-> provided] :
                     provided \in { c \in ProvidedChoices : c.is_none \/ mode = "Provided" } } :
                 mode \in ApiWeightModes }

\* weights_mode_map (routes.py 121-125)
weights_mode_map ==
    [key \in {"EquallyImportant", "Inferred", "PROVIDED"} |->
        CASE key = "EquallyImportant" -> "EquallyImportant"
          [] key = "Inferred" -> "Inferred"
          [] OTHER -> "Provided"]

\* weights_mode_map.get(quality_weights_mode, ArchitectQualityWeightsMode.INFERRED)
\* (routes.py 126-129)
weights_mode_of(quality_weights_mode) ==
    IF quality_weights_mode \in DOMAIN weights_mode_map
    THEN weights_mode_map[quality_weights_mode]
    ELSE "Inferred"

\* a request has arrived; the handler's Architect is not constructed yet
InitApi ==
    /\ api_settings \in ApiSettings
    /\ weights_mode = "Inferred"
    /\ matrix \in { m \in WeightMatrices : DOMAIN m.rows = Patterns }
    /\ provided_weights = NoneWeights
    /\ asrs = <<>> /\ condition_groups = <<>> /\ satisfiable_groups = <<>>
    /\ sg_index = 0
    /\ quality_weights = EmptyDict
    /\ part_pc = "idle" /\ attempts = 0 /\ fell_back = FALSE
    /\ desired_qualities = <<>> /\ column_weights = EmptyDict
    /\ group_order = <<>> /\ greedy_out = NotRun /\ ilp_out = NotRun /\ solver_status = "none"
    /\ embeddings = <<>> /\ cluster_map = <<>> /\ cluster_i = 0 /\ req_j = 0
    /\ cluster_groups = <<>> /\ group_pc = "idle"
    /\ norm_weights = EmptyDict /\ normalized = EmptyDict /\ norm_pc = "idle"
    /\ concerns = <<>> /\ an_pc = "idle" /\ runs = 0 /\ results = <<>> /\ optimization_mode = "ILP" /\ solver_available = TRUE /\ solve_log = <<>> /\ summary = <<>>
    /\ id_counter = 0 /\ parser_requirements = << <<>>, <<>> >> /\ load_pc = <<"idle", "idle">> /\ load_lines = << <<>>, <<>> >> /\ load_read = <<0, 0>> /\ loads = 0 /\ last_load = [parser |-> 0, text |-> <<>>]
    /\ vllm_process = "none" /\ current_model = "none" /\ idle_timer = [state |-> "none", request |-> 0] /\ run_pc = "idle" /\ run_model = "none" /\ start_returned = [request |-> 0, model |-> "none", value |-> FALSE, process |-> "none", current_model |-> "none"] /\ requests = 0
    /\ oracle_response = <<>>
    /\ inertia = <<>> /\ labelling = "round_robin" /\ clustered = NotClustered /\ equivalent = <<>> /\ equivalence_calls = <<>>
    /\ csv_table = [header |-> <<>>, rows |-> <<>>] /\ matrix_loaded = TRUE
    /\ api_pc = "request"

\* routes.py 100-147: the settings are read (defaults without settings), the mode is
\* mapped, and a new Architect analyzes with it; parsing, grouping and partitioning
\* give the ASRs and the groups, whose weights CalculateWeights then computes
ApiAnalyze ==
    /\ api_pc = "request"
    /\ weights_mode' = weights_mode_of(IF api_settings.given THEN api_settings.quality_weights_mode
                                       ELSE "Inferred")
    /\ provided_weights' = IF api_settings.given THEN api_settings.provided_weights ELSE NoneWeights
    /\ \E input \in GroupedInputs :
         /\ asrs' = input.asrs
         /\ condition_groups' = input.condition_groups
         /\ satisfiable_groups' = input.satisfiable_groups
    /\ sg_index' = 0
    /\ api_pc' = "analyze"
    /\ UNCHANGED <<quality_weights, api_settings>>
    /\ UNCHANGED <<part_pc, attempts, fell_back, oracle_response>>
    /\ UNCHANGED <<embeddings, cluster_map, cluster_i, req_j, cluster_groups, group_pc>>
    /\ UNCHANGED <<inertia, labelling, clustered, equivalent, equivalence_calls>>
    /\ UNCHANGED <<optVars, normVars, analyzeVars, loadVars, vllmVars>>

----------------------------------------------------------------------------
(* The specifications.  Each runs one component on inputs drawn from       *)
(* bounded sets; the variables of the other components do not change.      *)

SpecOpt == InitOpt /\ [][NextOpt]_vars

SpecPart == InitPart /\ [][NextPart]_vars

SpecGroup == InitGroup /\ [][NextGroup]_vars

SpecWeights == InitWeights /\ [][NextWeights]_vars

SpecNorm == InitNorm /\ [][NormalizeWeights]_vars

SpecParse == InitParse /\ [][ParseResponse]_vars

SpecCluster == InitCluster /\ [][ClusterConditions]_vars

SpecMerge == InitMerge /\ [][GroupCluster \/ GroupMergeStep \/ GroupExtend]_vars

SpecCsv == InitCsv /\ [][LoadFromCsv \/ OptimizeGreedy \/ OptimizeIlp]_vars

SpecApi == InitApi /\ [][ApiAnalyze \/ CalculateWeights]_vars

SpecVllm ==
    InitVllm /\ [][AnalyzeRequirements \/ StartServer \/ WaitForReady \/ RunAnalysis \/ IdleTimeout
                     \/ RunReturns \/ ProcessExits \/ StopServer]_vars

SpecLoad ==
    InitLoad /\ [][CallLoadFromText(TRUE) \/ ReadCounter \/ StoreCounter \/ AssignId]_vars

SpecLoadConcurrent ==
    InitLoad /\ [][CallLoadFromText(FALSE) \/ ReadCounter \/ StoreCounter \/ AssignId]_vars

SpecAnalyze ==
    InitAnalyze /\ [][AnalyzeStart \/ AnalyzeGroup \/ AnalyzeReturn \/ GetResultsSummary]_vars

----------------------------------------------------------------------------
(* Properties of the partitioner (SpecPart).                               *)

\* ConditionGroup number i belongs to SatisfiableGroup sg
BelongsTo(i, sg) == \E k \in 1..Len(sg) : sg[k] = i

\* C5: when _generate_satisfiable_groups is done, every ConditionGroup belongs to
\* at least one SatisfiableGroup.
C5_EveryGroupCovered ==
    part_pc = "done" =>
        \A i \in 1..Len(condition_groups) :
            \E s \in 1..Len(satisfiable_groups) : BelongsTo(i, satisfiable_groups[s])

\* C6: when _generate_satisfiable_groups is done, the "under any circumstances"
\* ConditionGroup, if there is one, belongs to every SatisfiableGroup.
C6_SentinelInEveryGroup ==
    part_pc = "done" =>
        \A i \in 1..Len(condition_groups) :
            condition_groups[i].nominal_condition = ANY_CIRCUMSTANCES_CONDITION
                => \A s \in 1..Len(satisfiable_groups) : BelongsTo(i, satisfiable_groups[s])

\* C7: with two or more ConditionGroups the partitioner begins at most 3 attempts
\* and never raises; an attempt begins only while no SatisfiableGroup exists; the
\* fallback runs only after 3 attempts that left nothing, and then the result is the
\* one SatisfiableGroup of all ConditionGroups in list order; it never ends with no
\* SatisfiableGroup.
C7_RetryThenFallback ==
    /\ [](Len(condition_groups) >= 2 =>
            /\ attempts <= 3
            /\ part_pc # "raised"
            /\ (satisfiable_groups # <<>> => part_pc = "done")
            /\ (fell_back => attempts = 3 /\ satisfiable_groups = << AllConditionGroups(condition_groups) >>)
            /\ (part_pc = "done" => satisfiable_groups # <<>>)
            /\ (part_pc = "done" /\ ~fell_back => attempts \in 1..3))
    /\ [][attempts' # attempts => (attempts' = attempts + 1 /\ satisfiable_groups = <<>> /\ ~fell_back)]_vars

\* the fallback has produced the SatisfiableGroup of three ConditionGroups
C7_Witness ==
    part_pc = "done" /\ fell_back /\ attempts = 3 /\ Len(condition_groups) = 3

----------------------------------------------------------------------------
(* Properties of condition grouping (SpecGroup).                           *)

\* how many times the id occurs in the list
RECURSIVE CountIn(_, _)
CountIn(list, id) ==
    IF list = <<>> THEN 0
    ELSE (IF Head(list) = id THEN 1 ELSE 0) + CountIn(Tail(list), id)

\* how many times the id occurs in the requirement lists of the groups
RECURSIVE Memberships(_, _)
Memberships(groups, id) ==
    IF groups = <<>> THEN 0
    ELSE CountIn(Head(groups).requirements, id) + Memberships(Tail(groups), id)

\* C4: when _generate_condition_groups is done, every architecturally-significant
\* Requirement is in exactly one ConditionGroup's requirement list, exactly once.
C4_ExactlyOneGroup ==
    group_pc = "done" =>
        \A i \in 1..Len(asrs) : Memberships(condition_groups, asrs[i].id) = 1

----------------------------------------------------------------------------
(* Properties of the weight calculator (SpecWeights).                      *)

\* the ids of the Requirements, across the ConditionGroups of the SatisfiableGroup
\* sg, whose quality-attribute list contains q
RequirementsNaming(q, sg) ==
    { id \in { asrs[i].id : i \in 1..Len(asrs) } :
        /\ \E k \in 1..Len(sg) : InList(id, condition_groups[sg[k]].requirements)
        /\ InList(q, ReqById(asrs, id).quality_attributes) }

\* C8: in Inferred mode the weight of q is the number of Requirements, across the
\* ConditionGroups of the SatisfiableGroup, whose quality-attribute list contains q;
\* a quality no such Requirement names has no entry.
C8_InferredCountsRequirements ==
    (weights_mode = "Inferred" /\ sg_index >= 1) =>
        LET sg == satisfiable_groups[sg_index]
        IN  /\ DOMAIN quality_weights = { q \in Qualities : RequirementsNaming(q, sg) # {} }
            /\ \A q \in DOMAIN quality_weights :
                 quality_weights[q] = Cardinality(RequirementsNaming(q, sg))

\* C9: in Provided mode the result is the provided weight map, key for key and value
\* for value, whatever the requirements are.
C9_ProvidedVerbatim ==
    (weights_mode = "Provided" /\ sg_index >= 1 /\ ~provided_weights.is_none) =>
        quality_weights = provided_weights.dict

\* the quality attributes that are a column of some pattern's row
MatrixColumns(m) == UNION { DOMAIN m.rows[p] : p \in DOMAIN m.rows }

\* C10: in EquallyImportant mode the result gives weight 1 to every quality that is a
\* column of the matrix, in any pattern's row, and has no other entry.
C10_EveryColumnWeighsOne ==
    (weights_mode = "EquallyImportant" /\ sg_index >= 1) =>
        quality_weights = [q \in MatrixColumns(matrix) |-> 1]

----------------------------------------------------------------------------
(* Properties of the weight normalizer (SpecNorm).                         *)

\* n is the floor of num / den, stated without division
IsFloorOf(n, num, den) ==
    IF den > 0 THEN n * den <= num /\ num < (n + 1) * den
    ELSE n * den >= num /\ num > (n + 1) * den

\* C11: _normalize_weights returns a map with the keys of its argument; with a
\* non-zero total each value is floor(weight * 100 / total); with total 0 (the empty
\* map included) the result is the argument; a map that sums to 100 comes back with
\* equal values; the argument is never modified.
C11_NormalizeFloors ==
    /\ [](norm_pc = "done" =>
            LET total == WeightSum(norm_weights)
            IN  /\ DOMAIN normalized = DOMAIN norm_weights
                /\ total # 0 => \A q \in DOMAIN norm_weights :
                                   IsFloorOf(normalized[q], norm_weights[q] * 100, total)
                /\ total = 0 => normalized = norm_weights
                /\ total = 100 => normalized = norm_weights)
    /\ [][norm_weights' = norm_weights]_vars

\* a map with total 3 has been normalized to the floors 33 and 66
C11_Witness ==
    /\ norm_pc = "done"
    /\ norm_weights = [q \in Qualities |-> IF q = QualityOrder[1] THEN 1 ELSE 2]
    /\ normalized = [q \in Qualities |-> IF q = QualityOrder[1] THEN 33 ELSE 66]

\* what the summary reports for one concern is what C12 states of its decisions
ScoresOf(entry) ==
    /\ entry.total_score = TotalScore(entry.decisions)
    /\ IF entry.decisions = <<>>
       THEN entry.average_score = ZeroFloat /\ entry.total_score = 0
       ELSE /\ ~entry.average_score.raised
            /\ entry.average_score.den # 0
            /\ entry.average_score.num * Len(entry.decisions)
                 = TotalScore(entry.decisions) * entry.average_score.den

\* C12: for every list of Decisions, total_score is the sum of the Decision scores and
\* average_score is that sum divided by the number of Decisions; a Concern with zero
\* Decisions has average_score 0.0 and total_score 0.
C12_ScoresOfDecisions == \A i \in 1..Len(summary) : ScoresOf(summary[i])

\* a summary with a concern of no decision and one whose decisions sum to a non-zero total
C12_Witness ==
    /\ \E i \in 1..Len(summary) : summary[i].decisions = <<>>
    /\ solve_log = <<"NOT_OPTIMAL", "OPTIMAL">>
    /\ Len(summary) = 2
    /\ Len(summary[2].decisions) = 2
    /\ summary[2].total_score # 0

\* the optimization of group i found no optimal solution
NoSolution(i) == i <= Len(solve_log) /\ solve_log[i] \in {"NO_SOLVER", "NOT_OPTIMAL"}

\* C13: when the optimization of one SatisfiableGroup finds no optimal solution, analyze
\* does not abort: it records a Concern with zero Decisions for that group and goes on
\* with the remaining groups, so the returned list holds exactly one Concern per
\* SatisfiableGroup, in SatisfiableGroup order.
C13_NoSolutionIsAnEmptyConcern ==
    (\E i \in 1..Len(satisfiable_groups) : NoSolution(i))
      => /\ an_pc \in {"loop", "returned"}
         /\ Len(concerns) = Len(solve_log)
         /\ \A i \in 1..Len(concerns) :
              /\ concerns[i].satisfiable_group = satisfiable_groups[i]
              /\ NoSolution(i) => concerns[i].decisions = <<>>
         /\ an_pc = "returned"
              => /\ Len(concerns) = Len(satisfiable_groups)
                 /\ results[Len(results)] = ReturnedList("self.concerns", concerns)

\* analyze returned two concerns: the first group had no optimal solution, the second
\* has its decisions
C13_Witness ==
    /\ an_pc = "returned"
    /\ solve_log = <<"NOT_OPTIMAL", "OPTIMAL">>
    /\ Len(concerns) = 2
    /\ concerns[1].decisions = <<>>
    /\ concerns[2].decisions # <<>>
    /\ satisfiable_groups = << <<1>>, <<2>> >>

\* C14: the list of Concerns returned by one analyze call on an Architect is left
\* unchanged (same length, same elements) by any later analyze call on the same Architect.
C14_ReturnedListUnchanged ==
    \A k \in 1..Len(results) : ListValue(results[k]) = results[k].at_return


\* a line with something other than whitespace in it
NonBlank(line) == \E i \in 1..Len(line) : line[i] \notin TextWhitespace

\* the non-blank lines of a text, in order, without their surrounding whitespace
NonBlankLines(text) ==
    LET lines == SplitLinesFrom(text, 1, 1)
        kept == SelectSeq(lines, NonBlank)
    IN  [i \in 1..Len(kept) |-> StripChars(kept[i], {" "})]

\* C15: after any sequence of load_from_text calls executed one after another, the
\* requirements loaded by the most recent call are exactly the non-blank lines of its
\* text in order, and their ids are 1, 2, ..., n in that order.
C15_LoadedInOrderWithIds ==
    (last_load.parser \in Parsers /\ load_pc[last_load.parser] = "idle")
      => LET loaded == parser_requirements[last_load.parser]
             expected == NonBlankLines(last_load.text)
         IN  /\ Len(loaded) = Len(expected)
             /\ \A i \in 1..Len(loaded) :
                  loaded[i].id = i /\ loaded[i].description = expected[i]

\* the second call in a row has loaded two requirements of a text with a blank line
\* between them, after a call on the other parser
C15_Witness ==
    /\ loads = 2
    /\ last_load = [parser |-> 1, text |-> <<"a", "\n", "\n", "a">>]
    /\ load_pc = [p \in Parsers |-> "idle"]
    /\ Len(parser_requirements[1]) = 2
    /\ parser_requirements[2] # <<>>

\* C20: when two load_from_text calls on two different parsers run interleaved in
\* different threads, the requirements of each parser still have pairwise distinct ids.
C20_DistinctIdsPerParser ==
    \A p \in Parsers :
        \A i, j \in 1..Len(parser_requirements[p]) :
            i # j => parser_requirements[p][i].id # parser_requirements[p][j].id

\* C18: Greedy and Exact agree on problem semantics: for every matrix, weight map and
\* desired-quality list (which may name a quality more than once), the score Greedy
\* computes for a pattern equals the score Exact computes for the same pattern, and the
\* satisfied and unsatisfied lists reported for a selected pattern are the same.
C18_ModesAgreeOnPattern ==
    (greedy_out.status = "returned" /\ ilp_out.status = "returned")
      => \A i \in 1..Len(greedy_out.decisions), j \in 1..Len(ilp_out.decisions) :
            LET d == greedy_out.decisions[i]
                e == ilp_out.decisions[j]
            IN  (d.arch_pattern_name = e.arch_pattern_name /\ d.selected_pattern = e.selected_pattern)
                  => /\ d.score = e.score
                     /\ d.satisfied_qualities = e.satisfied_qualities
                     /\ d.unsatisfied_qualities = e.unsatisfied_qualities

\* the row score Greedy computes for pattern p
GreedyScoreOf(p) ==
    GreedyRowValue(ColumnItems(matrix.rows[p]), matrix.rows[p], desired_qualities, column_weights)

\* decision d of category g selects the first pattern, in the order the category's rows
\* are iterated, among those of the greatest row score
FirstOfGreatest(d, g) ==
    LET patterns == GroupPatterns(matrix, g)
    IN  \E k \in 1..Len(patterns) :
          /\ d.selected_pattern = patterns[k]
          /\ d.score = GreedyScoreOf(patterns[k])
          /\ ~d.neg_inf
          /\ \A n \in 1..Len(patterns) : GreedyScoreOf(patterns[n]) <= d.score
          /\ \A n \in 1..(k - 1) : GreedyScoreOf(patterns[n]) < d.score

\* C19: in Greedy mode, when several patterns of a category share the greatest row
\* score, the selected pattern is the first of them in matrix-iteration order; with no
\* desired qualities every category selects its first pattern with score 0 and empty
\* satisfied and unsatisfied lists.
C19_FirstSeenWinsTies ==
    greedy_out.status = "returned"
      => /\ Len(greedy_out.decisions) = Len(group_order)
         /\ \A i \in 1..Len(greedy_out.decisions) :
              LET d == greedy_out.decisions[i]
              IN  /\ d.arch_pattern_name = group_order[i]
                  /\ FirstOfGreatest(d, group_order[i])
                  /\ desired_qualities = <<>>
                       => /\ d.selected_pattern = Head(GroupPatterns(matrix, group_order[i]))
                          /\ d.score = 0
                          /\ d.satisfied_qualities = <<>>
                          /\ d.unsatisfied_qualities = <<>>

\* Greedy returned a decision for a category of two patterns with the same non-zero
\* row score, and the decision names the first of them
C19_Witness ==
    /\ greedy_out.status = "returned"
    /\ desired_qualities # <<>>
    /\ \E i \in 1..Len(greedy_out.decisions) :
         LET patterns == GroupPatterns(matrix, group_order[i])
         IN  /\ Len(patterns) >= 2
             /\ GreedyScoreOf(patterns[1]) = GreedyScoreOf(patterns[2])
             /\ GreedyScoreOf(patterns[1]) # 0
             /\ greedy_out.decisions[i].selected_pattern = patterns[1]


\* C16: after an analysis on the vLLM backend completes and start_idle_timer has been
\* called, if no further start_server call arrives, stop_server eventually runs once
\* the idle timeout has elapsed and the manager ends with no process and no current
\* model, when the analysis coroutine is run through asyncio.run.  Stated as what must
\* then hold at every moment: the timer of the last request is still to fire, or
\* stop_server has run.
C16_IdleShutdownRemainsDue ==
    (idle_timer.request > 0 /\ start_returned.request = idle_timer.request)
      => \/ idle_timer.state = "sleeping"
         \/ vllm_process = "none" /\ current_model = "none"

\* C17: start_server returns True only if the server started successfully: after any
\* sequence of start_server, stop_server and process-exit events, start_server(m) never
\* returns True while the tracked process has already exited, and whenever it returns
\* True the current model is m.
C17_TrueOnlyIfServerRuns ==
    start_returned.value
      => /\ start_returned.process = "running"
         /\ start_returned.current_model = start_returned.model


\* a token as the parser reads it: without surrounding whitespace and parentheses
TokenText(token) == StripChars(StripChars(token, Whitespace), Parens)

\* the token is an integer lying in [1, group_count]
ValidToken(token, group_count) ==
    /\ IntParses(TokenText(token))
    /\ IntOf(TokenText(token)) \in 1..group_count

\* the valid indices of one segment, in token order
SegmentIndices(segment, group_count) ==
    LET valid == SelectSeq(SplitComma(segment), LAMBDA token : ValidToken(token, group_count))
    IN  [i \in 1..Len(valid) |-> IntOf(TokenText(valid[i]))]

\* the segments of a response: what lies between the delimiters, once the whitespace
\* and the parentheses around the response are gone
SegmentsOf(str) == RegexSplit(StripChars(StripChars(str, Whitespace), Parens))

\* C21: for every response, the SatisfiableGroups produced correspond one to one, in
\* order, to the segments holding at least one valid token; each contains exactly the
\* ConditionGroups whose indices are the segment's integer tokens in [1, groupCount],
\* in token order; other tokens are dropped without affecting the rest, and a response
\* with no valid token yields no SatisfiableGroup.
C21_GroupsAreSegmentsWithValidTokens ==
    part_pc = "parsed"
      => LET n == Len(condition_groups)
             segments == SegmentsOf(oracle_response)
             indices == [i \in 1..Len(segments) |-> SegmentIndices(segments[i], n)]
         IN  /\ satisfiable_groups = SelectSeq(indices, LAMBDA ids : ids # <<>>)
             /\ (\A i \in 1..Len(segments) : indices[i] = <<>>) <=> satisfiable_groups = <<>>

\* the response "3,x,1" for two ConditionGroups: an out-of-range and a non-numeric
\* token dropped, one SatisfiableGroup of the first ConditionGroup
C21_Witness ==
    /\ part_pc = "parsed"
    /\ Len(condition_groups) = 2
    /\ oracle_response = <<"3", ",", "x", ",", "1">>
    /\ satisfiable_groups = << <<1>> >>

\* C28: no SatisfiableGroup contains the same ConditionGroup more than once, for every
\* partition-oracle response, including responses that repeat an index inside one
\* parenthesised group.
C28_NoConditionGroupTwice ==
    \A k \in 1..Len(satisfiable_groups) :
        \A i, j \in 1..Len(satisfiable_groups[k]) :
            i # j => satisfiable_groups[k][i] # satisfiable_groups[k][j]

----------------------------------------------------------------------------
(* ClusteringService: cluster_conditions and _find_elbow_point.            *)

\* min_k of cluster_conditions for n vectors
MinK(n) == IF n \div 10 > 2 THEN n \div 10 ELSE 2

\* max_k of cluster_conditions for n vectors
MaxK(n) ==
    LET least(a, b) == IF a < b THEN a ELSE b
    IN  least(max_clusters, least(n \div 5, n - 1))

\* the decrease wcss[i-1] - wcss[i] of the code's index i
Decrease(wcss_list, i) == wcss_list[i] - wcss_list[i + 1]

\* C25: cluster_conditions returns one cluster id per vector; it returns the identity
\* assignment [0, ..., n-1] whenever n < 2 or max_k <= min_k; otherwise one WCSS is
\* computed for each k of min_k..max_k, and every such k and the chosen k lie in
\* [min_k, max_k] and are less than n, the labels being those of the chosen k
C25_IdentityOrBoundedK ==
    group_pc = "clustered" =>
        LET n == Len(embeddings)
            ids == clustered.cluster_assignments
        IN  /\ Len(ids) = n
            /\ IF n < 2 \/ MaxK(n) <= MinK(n)
               THEN /\ \A i \in 1..n : ids[i] = i - 1
                    /\ clustered.wcss_list = <<>>
               ELSE /\ Len(clustered.wcss_list) = MaxK(n) - MinK(n) + 1
                    /\ \A x \in 1..Len(clustered.wcss_list) :
                         /\ MinK(n) + x - 1 \in MinK(n)..MaxK(n)
                         /\ MinK(n) + x - 1 < n
                         /\ clustered.wcss_list[x] = inertia[MinK(n) + x - 1]
                    /\ clustered.optimal_k \in MinK(n)..MaxK(n)
                    /\ clustered.optimal_k < n
                    /\ \A i \in 1..n : ids[i] \in 0..(clustered.optimal_k - 1)

\* 20 vectors are clustered with k = 3, and the labels are not the identity
C25_Witness ==
    /\ group_pc = "clustered"
    /\ Len(embeddings) = 20
    /\ clustered.optimal_k = 3
    /\ clustered.cluster_assignments[20] = 1

\* C26: for a WCSS list of at most 2 entries the elbow index is 0; otherwise it is the
\* interior index i in 1..len-2 with the largest decrease wcss[i-1] - wcss[i], the
\* smallest such i on ties; the chosen k = min_k + index is never the largest candidate
C26_ElbowIsFirstLargestDecrease ==
    (group_pc = "clustered" /\ clustered.wcss_list # <<>>) =>
        LET wcss_list == clustered.wcss_list
            index == clustered.optimal_k - MinK(Len(embeddings))
            interior == 1..(Len(wcss_list) - 2)
        IN  /\ IF Len(wcss_list) <= 2
               THEN index = 0
               ELSE /\ index \in interior
                    /\ \A i \in interior :
                         /\ Decrease(wcss_list, i) <= Decrease(wcss_list, index)
                         /\ Decrease(wcss_list, i) = Decrease(wcss_list, index) => index <= i
            /\ MinK(Len(embeddings)) + index < MinK(Len(embeddings)) + Len(wcss_list) - 1

\* four candidates whose two interior decreases are equal: the first one is chosen
C26_Witness ==
    /\ group_pc = "clustered"
    /\ clustered.wcss_list = <<2, 1, 0, 0>>
    /\ clustered.optimal_k = 3

----------------------------------------------------------------------------
(* The merge loop of _generate_condition_groups.                           *)

\* the condition text of the requirement with the given id
TextOf(id) == ReqById(asrs, id).condition_text

\* the cluster id the requirement was zipped with
ClusterOf(id) ==
    LET with == ReqsWithConditions(asrs)
    IN  clustered.cluster_assignments[CHOOSE p \in 1..Len(with) : with[p] = id]

\* the ConditionGroups of conditioned requirements, by position
MergedGroups ==
    { g \in 1..Len(condition_groups) :
        condition_groups[g].nominal_condition # ANY_CIRCUMSTANCES_CONDITION }

\* the first requirement of a ConditionGroup
Seed(g) == condition_groups[g].requirements[1]

\* the groups created before g for the cluster of g
EarlierGroups(g) == { h \in MergedGroups : h < g /\ ClusterOf(Seed(h)) = ClusterOf(Seed(g)) }

\* the oracle judges the pair equivalent
Judged(condition1, condition2) == equivalent[<<condition1, condition2>>] = "True"

\* the positions, among the groups of its cluster, of the groups the requirement was
\* checked against
ConsultedFor(id) ==
    { equivalence_calls[x].group :
        x \in { y \in 1..Len(equivalence_calls) : equivalence_calls[y].req = id } }

\* C22: in a cluster the requirements are processed in original order; the first seeds
\* a group whose nominal condition is its own text; a later one joins the
\* earliest-created group of the cluster judged equivalent, no group after it being
\* consulted, or seeds a group when none is; a nominal condition is the text of the
\* group's first requirement, and a group holds requirements of one cluster only
C22_FirstMatchInCreationOrder ==
    group_pc = "done" =>
        \A g \in MergedGroups :
            LET ids == condition_groups[g].requirements
            IN  /\ condition_groups[g].nominal_condition = TextOf(Seed(g))
                /\ \A i, j \in 1..Len(ids) : i < j => ids[i] < ids[j]
                /\ \A i \in 1..Len(ids) : ClusterOf(ids[i]) = ClusterOf(Seed(g))
                /\ \A h \in EarlierGroups(g) : Seed(h) < Seed(g)
                /\ \A h \in EarlierGroups(g) : ~Judged(TextOf(Seed(g)), TextOf(Seed(h)))
                /\ ConsultedFor(Seed(g)) = 1..Cardinality(EarlierGroups(g))
                /\ \A i \in 2..Len(ids) :
                     /\ Judged(TextOf(ids[i]), condition_groups[g].nominal_condition)
                     /\ \A h \in EarlierGroups(g) : ~Judged(TextOf(ids[i]), TextOf(Seed(h)))
                     /\ ConsultedFor(ids[i]) = 1..(Cardinality(EarlierGroups(g)) + 1)

\* 15 conditioned requirements: requirement 4 was checked against two groups of its
\* cluster and joined the second one, which requirement 2 had seeded
C22_Witness ==
    /\ group_pc = "done"
    /\ Len(ReqsWithConditions(asrs)) = 15
    /\ Len(ReqsWithoutConditions(asrs)) = 0
    /\ ConsultedFor(4) = {1, 2}
    /\ \E g \in MergedGroups :
         /\ Seed(g) = 2
         /\ \E i \in 2..Len(condition_groups[g].requirements) :
              condition_groups[g].requirements[i] = 4

\* the requirements some ConditionGroup or some group of the current cluster holds
Grouped ==
    { id \in 1..Len(asrs) :
        \/ \E g \in 1..Len(condition_groups) : InList(id, condition_groups[g].requirements)
        \/ \E g \in 1..Len(cluster_groups) : InList(id, cluster_groups[g].requirements) }

\* C23: an equivalence-oracle call that raises counts as "not equivalent": the
\* requirement is still grouped, the pair is called once only, the next existing group
\* of the cluster is consulted, the requirement does not join the group the call was
\* for, and when every call raises each requirement of a cluster ends in a singleton
C23_ErrorMeansNotEquivalent ==
    /\ \A x, y \in 1..Len(equivalence_calls) :
         (equivalence_calls[x].req = equivalence_calls[y].req
            /\ equivalence_calls[x].cluster = equivalence_calls[y].cluster
            /\ equivalence_calls[x].group = equivalence_calls[y].group) => x = y
    /\ \A x \in 1..Len(equivalence_calls) :
         equivalence_calls[x].answer = "raise" => equivalence_calls[x].req \in Grouped
    /\ group_pc = "done" =>
         \A g \in MergedGroups :
            LET ids == condition_groups[g].requirements
                rank == Cardinality(EarlierGroups(g)) + 1
            IN  /\ \A i \in 2..Len(ids) :
                     ~\E x \in 1..Len(equivalence_calls) :
                         /\ equivalence_calls[x].req = ids[i]
                         /\ equivalence_calls[x].group = rank
                         /\ equivalence_calls[x].answer = "raise"
                /\ \A x \in 1..Len(equivalence_calls) :
                     (equivalence_calls[x].req \in { ids[i] : i \in 1..Len(ids) }
                        /\ equivalence_calls[x].answer = "raise"
                        /\ equivalence_calls[x].group < rank - (IF equivalence_calls[x].req = Seed(g) THEN 1 ELSE 0))
                     => equivalence_calls[x].group + 1 \in ConsultedFor(equivalence_calls[x].req)
                /\ (\A pair \in DOMAIN equivalent : equivalent[pair] = "raise") => Len(ids) = 1

\* 15 conditioned requirements: the call for requirement 4 and the first group of its
\* cluster raised, the second group was consulted, and requirement 4 is grouped
C23_Witness ==
    /\ group_pc = "done"
    /\ Len(ReqsWithConditions(asrs)) = 15
    /\ Len(ReqsWithoutConditions(asrs)) = 0
    /\ \E x \in 1..Len(equivalence_calls) :
         /\ equivalence_calls[x].req = 4
         /\ equivalence_calls[x].group = 1
         /\ equivalence_calls[x].answer = "raise"
    /\ 2 \in ConsultedFor(4)
    /\ 4 \in Grouped

\* C30: with max_clusters = 20 and fewer than 15 non-empty embeddings the clustering is
\* the identity assignment, no equivalence-oracle call is made and no ConditionGroup
\* holds two conditioned requirements, identical condition texts included
C30_NoMergeBelowFifteen ==
    Len(ValidEmbeddings(embeddings)) < 15 =>
        /\ equivalence_calls = <<>>
        /\ \A g \in 1..Len(cluster_groups) : Len(cluster_groups[g].requirements) = 1
        /\ \A g \in MergedGroups : Len(condition_groups[g].requirements) = 1
        /\ group_pc \in {"merge", "done"} =>
              clustered.cluster_assignments = RangeList(Len(ValidEmbeddings(embeddings)))

\* 14 conditioned requirements with one condition text, which the oracle judges
\* equivalent to itself, end in 14 groups
C30_Witness ==
    /\ group_pc = "done"
    /\ Len(ValidEmbeddings(embeddings)) = 14
    /\ Len(ReqsWithConditions(asrs)) = 14
    /\ \A id \in 1..Len(asrs) : TextOf(id) = "if offline"
    /\ Judged("if offline", "if offline")
    /\ Cardinality(MergedGroups) = 14

----------------------------------------------------------------------------
(* Matrix.load_from_csv.                                                   *)

\* the quality -> score entries the matrix holds for a pattern
StoredRow(pattern) ==
    IF pattern \in DOMAIN matrix.rows THEN matrix.rows[pattern] ELSE EmptyDict

\* C24: for every data line, the i-th score cell after the category and the pattern
\* name is stored under the i-th header quality if and only if it parses as an
\* integer; a non-integer or empty cell gives no entry and leaves the other cells of
\* the line under their own qualities
C24_CellsStoredByPosition ==
    matrix_loaded =>
        \A k \in 1..Len(csv_table.rows) :
            LET cells == csv_table.rows[k].cells
                qualities == HeaderQualities(csv_table.header)
                row == StoredRow(csv_table.rows[k].pattern)
            IN  \A i \in 1..Len(qualities) :
                    IF i <= Len(cells) /\ IntParses(cells[i])
                    THEN qualities[i] \in DOMAIN row /\ row[qualities[i]] = IntOf(cells[i])
                    ELSE qualities[i] \notin DOMAIN row

\* C29: after load_from_csv every pattern registered in row_groups has a score row, so
\* get_rows_by_group raises for no category of get_all_groups and optimize raises in
\* neither mode
C29_EveryRegisteredPatternHasARow ==
    (matrix_loaded /\ csv_table.rows # <<>>) =>
        /\ \A p \in DOMAIN matrix.row_groups : p \in DOMAIN matrix.rows
        /\ \A g \in get_all_groups(matrix) : ~get_rows_by_group_raises(matrix, g)
        /\ greedy_out.status # "raised"
        /\ ilp_out.status # "raised"

----------------------------------------------------------------------------
(* The weight mode of an /api/analyze request.                             *)

\* C27: for each value of the API's quality_weights_mode setting the Architect runs in
\* the weight mode of the same name, and a request with mode Provided and
\* provided_weights gets those weights
C27_ApiModeReachesArchitect ==
    (api_pc = "analyze" /\ api_settings.given) =>
        /\ weights_mode = api_settings.quality_weights_mode
        /\ (api_settings.quality_weights_mode = "Provided"
              /\ Truthy(api_settings.provided_weights) /\ sg_index > 0)
           => quality_weights = api_settings.provided_weights.dict

====
